---- MODULE Spec2Model ----
(***************************************************************************)
(* Model of the LexAI rpc_worker: the line-oriented JSON-RPC transport     *)
(* loop (jsonrpc.rs), the handlers it dispatches to, the chunker           *)
(* (document.rs) and the vector-store client (qdrant.rs).                  *)
(*                                                                         *)
(* One process: the thread that runs JsonRpcLoop::run.  `pc` is its        *)
(* position.  The synchronous stretches of a handler are one action each;  *)
(* an action ends where the code awaits (the spawn_blocking PDF task, a    *)
(* vector-store round trip) or returns to the run loop.                    *)
(***************************************************************************)
EXTENDS Integers, Sequences, FiniteSets, TLC

(***************************************************************************)
(* Bounds of the model.                                                    *)
(***************************************************************************)
\* number of input lines the host sends before it closes the stream
MaxLines == 2
\* the texts, windows and overlaps split_into_chunks is applied to on its own
MaxTextLen == 5
MaxWindow == 4
MaxOverlap == 4
\* the batches embed is applied to on its own: characters per text, texts
MaxChars == 2
MaxBatch == 3
\* the calls of EmbeddingService::new made in one process
MaxServices == 3
\* the payload values converted on their own: the width that stands for the
\* 64 bits of i64 and u64, and the items of an array
IntBits == 3
MaxItems == 2
MaxReviews == 7
MaxTasks == 2
MaxCalls == 3
MaxSpawns == 3

(***************************************************************************)
(* Option<T>: None is the empty sequence, Some(x) the one-element one.      *)
(***************************************************************************)
None == <<>>
Some(x) == <<x>>
IsSome(o) == Len(o) > 0
Unwrap(o) == o[1]

(***************************************************************************)
(* serde_json::Value, as far as the transport inspects it.  Every value    *)
(* is a record of the same shape: t is the JSON type, s the text of a      *)
(* string, n the value of an integer.  "absent" marks a key that the       *)
(* object does not have (it is not a JSON value).                          *)
(***************************************************************************)
JVal(t, s, n) == [t |-> t, s |-> s, n |-> n]
Absent == JVal("absent", "", 0)
JNull == JVal("null", "", 0)
JStr(s) == JVal("string", s, 0)
JInt(n) == JVal("int", "", n)

\* Option<Value> as serde deserializes it: a missing key and null are None
OptionValue(v) == IF v.t \in {"absent", "null"} THEN None ELSE Some(v)
\* Option<String>: None for a missing key and null, Some for a string
OptionStringOk(v) == v.t \in {"absent", "null", "string"}
OptionString(v) == IF v.t = "string" THEN Some(v.s) ELSE None
\* Option<u64>
OptionU64Ok(v) == v.t \in {"absent", "null"} \/ (v.t = "int" /\ v.n >= 0)
OptionU64(v) == IF v.t = "int" THEN Some(v.n) ELSE None

(***************************************************************************)
(* The `params` member of a request.  form is "absent" (no key), "null",   *)
(* "scalar" (a string, number or bool), "array" (items, by position) or    *)
(* "object" (the members the two schemas name; serde ignores any other).   *)
(***************************************************************************)
Params(form, document_id, file_path, query, limit, items) ==
    [form |-> form, document_id |-> document_id, file_path |-> file_path,
     query |-> query, limit |-> limit, items |-> items]
ParamsOf(form) == Params(form, Absent, Absent, Absent, Absent, <<>>)
ParamsObject(document_id, file_path, query, limit) ==
    Params("object", document_id, file_path, query, limit, <<>>)
ParamsArray(items) == Params("array", Absent, Absent, Absent, Absent, items)

\* the i-th element of a positional params array, Absent past its end
Item(items, i) == IF i <= Len(items) THEN items[i] ELSE Absent

(***************************************************************************)
(* An input line.  kind: "invalid_utf8" (bytes that are not UTF-8),        *)
(* "not_json" (text that is not well-formed JSON) or "json".  A JSON line  *)
(* has a top-level value that is an object with the four members of        *)
(* JsonRpcRequest (each possibly absent or of any type), or a scalar.      *)
(***************************************************************************)
Line(kind, top, jsonrpc, method, params, id) ==
    [kind |-> kind, top |-> top, jsonrpc |-> jsonrpc, method |-> method,
     params |-> params, id |-> id]
RawLine(kind) == Line(kind, "scalar", Absent, Absent, ParamsOf("absent"), Absent)
JsonScalarLine == RawLine("json")
JsonObjectLine(jsonrpc, method, params, id) ==
    Line("json", "object", jsonrpc, method, params, id)

(***************************************************************************)
(* serde_json::from_str::<JsonRpcRequest>(line), jsonrpc.rs:60 with the    *)
(* struct at jsonrpc.rs:213-219: `jsonrpc` and `method` are required       *)
(* Strings, `params` and `id` are Options.                                 *)
(***************************************************************************)
RequestParses(l) ==
    /\ l.kind = "json"
    /\ l.top = "object"
    /\ l.jsonrpc.t = "string"
    /\ l.method.t = "string"

JsonRpcRequest(l) ==
    [jsonrpc |-> l.jsonrpc.s,
     method |-> l.method.s,
     params |-> IF l.params.form \in {"absent", "null"} THEN None ELSE Some(l.params),
     id |-> OptionValue(l.id)]

unwrap_or(o, d) == IF IsSome(o) THEN Unwrap(o) ELSE d

(***************************************************************************)
(* serde_json::from_value::<UploadDocumentParams>, jsonrpc.rs:221-226.     *)
(* A derived struct deserializes from an object by member name and from an *)
(* array by position (document_id, file_path); a #[serde(default)] member  *)
(* may be missing, any other missing member is an error, and so is an      *)
(* array longer than the struct.                                           *)
(***************************************************************************)
Args(document_id, file_path, query, limit) ==
    [document_id |-> document_id, file_path |-> file_path, query |-> query,
     limit |-> limit]

UploadFields(p) ==
    IF p.form = "array"
    THEN [document_id |-> Item(p.items, 1), file_path |-> Item(p.items, 2)]
    ELSE [document_id |-> p.document_id, file_path |-> p.file_path]

\* as if file_path carried #[serde(default)]
UploadDocumentParamsOk_file_path_default(p) ==
    /\ p.form \in {"object", "array"}
    /\ p.form = "array" => Len(p.items) <= 2
    /\ OptionStringOk(UploadFields(p).document_id)
    /\ UploadFields(p).file_path.t \in {"absent", "string"}

UploadDocumentParamsOk(p) ==
    /\ p.form \in {"object", "array"}
    /\ p.form = "array" => Len(p.items) <= 2
    /\ OptionStringOk(UploadFields(p).document_id)
    /\ UploadFields(p).file_path.t = "string"

UploadDocumentParams(p) ==
    Args(OptionString(UploadFields(p).document_id), UploadFields(p).file_path.s,
         "", None)

(***************************************************************************)
(* serde_json::from_value::<SearchParams>, jsonrpc.rs:228-235; by position *)
(* the members are (query, document_id, limit).                            *)
(***************************************************************************)
SearchFields(p) ==
    IF p.form = "array"
    THEN [query |-> Item(p.items, 1), document_id |-> Item(p.items, 2),
          limit |-> Item(p.items, 3)]
    ELSE [query |-> p.query, document_id |-> p.document_id, limit |-> p.limit]

SearchParamsOk(p) ==
    /\ p.form \in {"object", "array"}
    /\ p.form = "array" => Len(p.items) <= 3
    /\ SearchFields(p).query.t = "string"
    /\ OptionStringOk(SearchFields(p).document_id)
    /\ OptionU64Ok(SearchFields(p).limit)

SearchParams(p) ==
    Args(OptionString(SearchFields(p).document_id), "", SearchFields(p).query.s,
         OptionU64(SearchFields(p).limit))

(***************************************************************************)
(* JsonRpcResponse and its two constructors, jsonrpc.rs:237-277.           *)
(***************************************************************************)
JsonRpcError(code, message) == [code |-> code, message |-> message]

\* as if error() also filled `result`
JsonRpcResponse_error_with_result(id, code, message) ==
    [jsonrpc |-> "2.0", result |-> Some(JNull),
     error |-> Some(JsonRpcError(code, message)), id |-> id]

JsonRpcResponse_error(id, code, message) ==
    [jsonrpc |-> "2.0", result |-> None,
     error |-> Some(JsonRpcError(code, message)), id |-> id]

JsonRpcResponse_result(id, value) ==
    [jsonrpc |-> "2.0", result |-> Some(value), error |-> None, id |-> id]

(***************************************************************************)
(* document.rs.  A text is a sequence of characters (code points).         *)
(***************************************************************************)
CHUNK_SIZE == 1000
CHUNK_OVERLAP == 200

Min(a, b) == IF a <= b THEN a ELSE b
saturating_sub(a, b) == IF a >= b THEN a - b ELSE 0

\* as if the window stepped back by the overlap whatever its size
next_start_always_overlap(end, size, overlap) == saturating_sub(end, overlap)

\* where the next window starts, document.rs:54-58
next_start(end, size, overlap) ==
    IF overlap >= size THEN end ELSE saturating_sub(end, overlap)

\* the while loop of split_into_chunks, document.rs:45-59; start is 0-based
RECURSIVE chunk_loop(_, _, _, _, _)
chunk_loop(chars, start, results, size, overlap) ==
    IF ~(start < Len(chars))
    THEN results
    ELSE LET end == Min(start + size, Len(chars))
             pushed == Append(results, SubSeq(chars, start + 1, end))
         IN  IF end = Len(chars)
             THEN pushed
             ELSE chunk_loop(chars, next_start(end, size, overlap),
                             pushed, size, overlap)

\* as if a text of blanks only were treated like the empty text
split_with_drops_blank(text, size, overlap) ==
    IF \A i \in 1..Len(text) : text[i] = " "
    THEN <<>>
    ELSE chunk_loop(text, 0, <<>>, size, overlap)

\* as if the window always advanced by its full length
split_with_no_overlap(text, size, overlap) ==
    IF Len(text) = 0 THEN <<>> ELSE chunk_loop(text, 0, <<>>, size, size)

\* as if the window stepped back by one character more than the overlap
split_with_wider_overlap(text, size, overlap) ==
    IF Len(text) = 0 THEN <<>>
    ELSE chunk_loop(text, 0, <<>>, size, Min(overlap + 1, size - 1))

\* as if a last window shorter than the others were not emitted
split_with_lost_tail(text, size, overlap) ==
    LET r == IF Len(text) = 0 THEN <<>> ELSE chunk_loop(text, 0, <<>>, size, overlap)
    IN  IF Len(r) > 1 /\ Len(r[Len(r)]) < size THEN SubSeq(r, 1, Len(r) - 1) ELSE r

split_with(text, size, overlap) ==
    IF Len(text) = 0 THEN <<>> ELSE chunk_loop(text, 0, <<>>, size, overlap)

split_into_chunks(text) == split_with(text, CHUNK_SIZE, CHUNK_OVERLAP)

\* str::trim: drop leading and trailing white space
IsWhitespace(c) == c \in {" ", "\n", "\t"}
RECURSIVE trim_start(_)
trim_start(t) ==
    IF Len(t) > 0 /\ IsWhitespace(t[1]) THEN trim_start(Tail(t)) ELSE t
RECURSIVE trim_end(_)
trim_end(t) ==
    IF Len(t) > 0 /\ IsWhitespace(t[Len(t)])
    THEN trim_end(SubSeq(t, 1, Len(t) - 1))
    ELSE t
trim(t) == trim_end(trim_start(t))

(***************************************************************************)
(* process_pdf, document.rs:13-33.  exists: whether the path exists;       *)
(* extracted: the outcome of pdf_extract::extract_text, None for an error, *)
(* Some(raw text) otherwise.  The result is Err(error) or Ok(text, chunks).*)
(***************************************************************************)
\* `called` names the functions process_pdf called on the way to its result
Err(message, called) ==
    [ok |-> FALSE, error |-> message, text |-> <<>>, chunks |-> <<>>,
     called |-> called]
ProcessedDocument(text, chunks) ==
    [ok |-> TRUE, error |-> "", text |-> text, chunks |-> chunks,
     called |-> {"extract_text", "split_into_chunks"}]

\* as if the text were chunked without the check that it is not empty
process_pdf_no_empty_check(exists, extracted) ==
    IF ~exists THEN Err("file not found", {})
    ELSE IF ~IsSome(extracted)
    THEN Err("failed to extract pdf text", {"extract_text"})
    ELSE LET trimmed == trim(Unwrap(extracted))
             chunks == split_into_chunks(trimmed)
         IN  IF Len(chunks) = 0
             THEN Err("no text chunks generated",
                      {"extract_text", "split_into_chunks"})
             ELSE ProcessedDocument(trimmed, chunks)

process_pdf(exists, extracted) ==
    IF ~exists THEN Err("file not found", {})
    ELSE IF ~IsSome(extracted)
    THEN Err("failed to extract pdf text", {"extract_text"})
    ELSE LET trimmed == trim(Unwrap(extracted))
             chunks == split_into_chunks(trimmed)
         IN  IF Len(trimmed) = 0
             THEN Err("extracted text is empty", {"extract_text"})
             ELSE IF Len(chunks) = 0
             THEN Err("no text chunks generated",
                      {"extract_text", "split_into_chunks"})
             ELSE ProcessedDocument(trimmed, chunks)

(***************************************************************************)
(* embeddings.rs, as the handlers see it: EmbeddingEngine::embed returns   *)
(* one vector per text, or an error.  A vector is named by the text it was *)
(* computed from.                                                          *)
(***************************************************************************)
EmbeddingVector(text) == [of |-> text]
embed(texts) == [i \in 1..Len(texts) |-> EmbeddingVector(texts[i])]

(***************************************************************************)
(* tokenizer.rs.  The tokenizer asset is a BERT word-piece tokenizer: a    *)
(* text becomes [CLS], one token per character, [SEP]; ids are those of    *)
(* the asset's vocabulary.                                                 *)
(***************************************************************************)
TokenizerConfig(model_max_length, pad_token) ==
    [model_max_length |-> model_max_length, pad_token |-> pad_token]

\* the service: the vocabulary of tokenizer.json and the parsed configuration
TokenizerService(vocab, config) == [vocab |-> vocab, config |-> config]

token_to_id(vocab, token) ==
    IF token \notin vocab THEN None
    ELSE Some(CASE token = "[PAD]" -> 0
                [] token = "<pad>" -> 1
                [] token = "[CLS]" -> 101
                [] token = "[SEP]" -> 102
                [] token = "a" -> 1037
                [] token = "b" -> 1038
                [] OTHER -> 100)

Repeat(x, n) == [i \in 1..n |-> x]

\* as if a row were padded but never truncated
encode_one_untruncated(text, max_length, pad_id) ==
    LET ids == <<101>> \o [i \in 1..Len(text) |-> IF text[i] = "a" THEN 1037 ELSE 1038]
                    \o <<102>>
        pad == saturating_sub(max_length, Len(ids))
    IN  [ids |-> ids \o Repeat(pad_id, pad),
         attention_mask |-> Repeat(1, Len(ids)) \o Repeat(0, pad)]

\* one Encoding of encode_batch, tokenizer.rs:79-99: truncation to
\* max_length (special tokens included), then padding on the right to
\* exactly max_length with pad_id and mask 0
encode_one(text, max_length, pad_id) ==
    LET room == saturating_sub(max_length, 2)
        kept == SubSeq(text, 1, Min(Len(text), room))
        ids == <<101>> \o [i \in 1..Len(kept) |-> IF kept[i] = "a" THEN 1037 ELSE 1038]
                    \o <<102>>
        pad == saturating_sub(max_length, Len(ids))
    IN  [ids |-> ids \o Repeat(pad_id, pad),
         attention_mask |-> Repeat(1, Len(ids)) \o Repeat(0, pad)]

\* flat_map(..).collect(), tokenizer.rs:104-118
RECURSIVE flat_map(_, _)
flat_map(encodings, field) ==
    IF Len(encodings) = 0 THEN <<>>
    ELSE (IF field = "ids" THEN Head(encodings).ids
                           ELSE Head(encodings).attention_mask)
         \o flat_map(Tail(encodings), field)

EncodeErr(message) == [ok |-> FALSE, error |-> message]
EncodedBatch(input_ids, attention_mask, batch_len, sequence_length) ==
    [ok |-> TRUE, input_ids |-> input_ids, attention_mask |-> attention_mask,
     batch_len |-> batch_len, sequence_length |-> sequence_length]

\* TokenizerService::encode, tokenizer.rs:68-126
encode(service, texts) ==
    IF Len(texts) = 0 THEN EncodeErr("no texts provided for encoding")
    ELSE LET max_length == unwrap_or(service.config.model_max_length, 512)
             pad_id == token_to_id(service.vocab, service.config.pad_token)
         IN  IF ~IsSome(pad_id) THEN EncodeErr("pad token missing from tokenizer")
             ELSE LET encodings ==
                          [i \in 1..Len(texts) |->
                              encode_one(texts[i], max_length, Unwrap(pad_id))]
                  IN  EncodedBatch(flat_map(encodings, "ids"),
                                   flat_map(encodings, "attention_mask"),
                                   Len(encodings), max_length)

(***************************************************************************)
(* embeddings.rs, EmbeddingService::embed in full.  Real numbers stand for *)
(* f32: a pooled vector is kept as its sum and its denominator, and a      *)
(* normalized vector v / |v| as a direction `dir` (integers without a      *)
(* common factor) with norm2 = |dir|^2, so that it is dir / sqrt(norm2);   *)
(* the vector the epsilon floor leaves at zero has norm2 = 0.              *)
(*                                                                         *)
(* The ONNX model is an asset: `kind` tells the shape of its first output, *)
(* (batch, seq, hidden) for "token_level", (batch, hidden) for "pooled",   *)
(* one more axis for "other_rank", and "failing" makes session.run fail.   *)
(* Its output for a token depends on the token and on `weight`; at a       *)
(* padded position it is whatever `noise` makes it.                        *)
(***************************************************************************)
Model(kind, weight, noise) ==
    [kind |-> kind, hidden |-> 2, weight |-> weight, noise |-> noise]

\* row i (0-based) of a flat (rows, width) tensor
Row(data, i, width) == SubSeq(data, i * width + 1, (i + 1) * width)

RECURSIVE Sum(_)
Sum(s) == IF Len(s) = 0 THEN 0 ELSE Head(s) + Sum(Tail(s))

\* the hidden vector the model computes at one position
TokenOutput(model, id, mask, salt) ==
    [k \in 1..model.hidden |->
        IF mask = 0 THEN model.noise * (k + salt) ELSE model.weight * (id + k)]

RECURSIVE Flatten(_)
Flatten(rows) == IF Len(rows) = 0 THEN <<>> ELSE Head(rows) \o Flatten(Tail(rows))

\* session.run(..).first(), embeddings.rs:66-77: the first output tensor
session_run(model, batch) ==
    LET b == batch.batch_len
        s == batch.sequence_length
        tokens == [j \in 1..(b * s) |->
                      TokenOutput(model, batch.input_ids[j],
                                  batch.attention_mask[j], j)]
        pooled == [i \in 1..b |->
                      TokenOutput(model,
                                  Sum(Row(batch.input_ids, i - 1, s)), 1, 0)]
    IN  CASE model.kind = "token_level" ->
                 [ok |-> TRUE, shape |-> <<b, s, model.hidden>>,
                  data |-> Flatten(tokens)]
          [] model.kind = "pooled" ->
                 [ok |-> TRUE, shape |-> <<b, model.hidden>>,
                  data |-> Flatten(pooled)]
          [] model.kind = "other_rank" ->
                 [ok |-> TRUE, shape |-> <<b, s, model.hidden, 1>>,
                  data |-> Flatten(tokens)]
          [] OTHER -> [ok |-> FALSE, shape |-> <<>>, data |-> <<>>]

\* the inner loop of mean_pool, embeddings.rs:105-114
RECURSIVE pool_tokens(_, _, _, _, _, _, _)
pool_tokens(embeddings, attention, batch_idx, seq_len, token_idx, sum, count) ==
    IF token_idx = seq_len THEN [sum |-> sum, count |-> count]
    ELSE IF attention[batch_idx * seq_len + token_idx + 1] = 0
    THEN pool_tokens(embeddings, attention, batch_idx, seq_len, token_idx + 1,
                     sum, count)
    ELSE LET row == embeddings[batch_idx * seq_len + token_idx + 1]
         IN  pool_tokens(embeddings, attention, batch_idx, seq_len, token_idx + 1,
                         [k \in 1..Len(sum) |-> sum[k] + row[k]], count + 1)

\* as if the denominator were the count itself
mean_pool_unfloored(batch_len, seq_len, hidden, embeddings, attention) ==
    [b \in 1..batch_len |->
        LET r == pool_tokens(embeddings, attention, b - 1, seq_len, 0,
                             Repeat(0, hidden), 0)
        IN  [sum |-> r.sum, denom |-> r.count]]

\* as if every position were pooled, masked or not
mean_pool_unmasked(batch_len, seq_len, hidden, embeddings, attention) ==
    [b \in 1..batch_len |->
        LET r == pool_tokens(embeddings, Repeat(1, Len(attention)), b - 1, seq_len,
                             0, Repeat(0, hidden), 0)
        IN  [sum |-> r.sum, denom |-> IF r.count > 0 THEN r.count ELSE 1]]

\* mean_pool, embeddings.rs:91-122: embeddings is the (batch_len * seq_len,
\* hidden) array, attention the flat mask of the encoded batch
mean_pool(batch_len, seq_len, hidden, embeddings, attention) ==
    [b \in 1..batch_len |->
        LET r == pool_tokens(embeddings, attention, b - 1, seq_len, 0,
                             Repeat(0, hidden), 0)
        IN  [sum |-> r.sum, denom |-> IF r.count > 0 THEN r.count ELSE 1]]

Abs(x) == IF x < 0 THEN -x ELSE x
RECURSIVE Gcd(_, _)
Gcd(a, b) == IF b = 0 THEN a ELSE Gcd(b, a % b)
RECURSIVE GcdAll(_)
GcdAll(s) == IF Len(s) = 0 THEN 0 ELSE Gcd(Abs(Head(s)), GcdAll(Tail(s)))

SumOfSquares(v) == Sum([k \in 1..Len(v) |-> v[k] * v[k]])

\* as if the vectors were returned as pooled, without the division
normalize_skipped(vectors) ==
    [i \in 1..Len(vectors) |->
        [dir |-> vectors[i].sum,
         norm2 |-> vectors[i].denom * vectors[i].denom]]

\* normalize, embeddings.rs:124-132: v / max(sqrt(sum of squares), 1e-12)
normalize(vectors) ==
    [i \in 1..Len(vectors) |->
        LET v == vectors[i].sum
            g == GcdAll(v)
        IN  IF SumOfSquares(v) = 0
            THEN [dir |-> v, norm2 |-> 0]
            ELSE LET dir == [k \in 1..Len(v) |-> v[k] \div g]
                 IN  [dir |-> dir, norm2 |-> SumOfSquares(dir)]]

EmbedErr(message) == [ok |-> FALSE, error |-> message, vectors |-> <<>>]

\* EmbeddingService::embed, embeddings.rs:46-89
EmbeddingService_embed(tokenizer, model, texts) ==
    LET batch == encode(tokenizer, texts)
        outputs == session_run(model, batch)
        shape == outputs.shape
        batch_len == shape[1]
        seq_len == IF Len(shape) = 3 THEN shape[2] ELSE 1
        hidden == shape[Len(shape)]
        array == [r \in 1..(batch_len * seq_len) |-> Row(outputs.data, r - 1, hidden)]
    IN  IF ~batch.ok THEN EmbedErr(batch.error)
        ELSE IF ~outputs.ok THEN EmbedErr("failed to execute ONNX session")
        ELSE IF Len(shape) \notin {2, 3} THEN EmbedErr("unexpected embedding shape")
        ELSE [ok |-> TRUE, error |-> "",
              vectors |-> normalize(mean_pool(batch_len, seq_len, hidden, array,
                                              batch.attention_mask))]

(***************************************************************************)
(* qdrant.rs:117-192, the payload conversions.  A serde_json Number is    *)
(* PosInt(u64), NegInt(i64 below zero) or Float(f64), and two Numbers are  *)
(* equal only within one variant.  i64 and u64 are IntBits wide here; an   *)
(* f64 is named by twice its value, its mantissa has IntBits - 1 bits at   *)
(* the magnitude of u64 values above i64::MAX (as 53 bits are fewer than   *)
(* 64); `finite` is false for NaN and the infinities, which no Number     *)
(* holds.                                                                  *)
(***************************************************************************)
I64_MAX == 2 ^ (IntBits - 1) - 1
U64_MAX == 2 ^ IntBits - 1

F64(twice) == [finite |-> TRUE, twice |-> twice]

PosInt(u) == [n |-> "PosInt", v |-> u]
NegInt(i) == [n |-> "NegInt", v |-> i]
Float(f) == [n |-> "Float", v |-> f.twice]

\* `u as f64` for u above i64::MAX: round to nearest, ties to even mantissa
u64_as_f64(u) ==
    IF u <= I64_MAX + 1 \/ u % 2 = 0 THEN F64(2 * u)
    ELSE IF (u \div 2) % 2 = 0 THEN F64(2 * (u - 1)) ELSE F64(2 * (u + 1))

\* Number::as_i64
as_i64(n) ==
    CASE n.n = "PosInt" -> IF n.v <= I64_MAX THEN Some(n.v) ELSE None
      [] n.n = "NegInt" -> Some(n.v)
      [] OTHER -> None

\* Number::as_f64
as_f64(n) ==
    CASE n.n = "PosInt" -> Some(u64_as_f64(n.v))
      [] n.n = "NegInt" -> Some(F64(2 * n.v))
      [] OTHER -> Some(F64(n.v))

\* Number::from(i64), qdrant.rs:129
Number_from_i64(v) == IF v < 0 THEN NegInt(v) ELSE PosInt(v)

\* Number::from_f64, qdrant.rs:130
Number_from_f64(f) == IF f.finite THEN Some(Float(f)) ELSE None

\* serde_json::Value
Value_Null == [t |-> "Null"]
Value_Bool(v) == [t |-> "Bool", bool |-> v]
Value_Number(n) == [t |-> "Number", number |-> n]
Value_String(s) == [t |-> "String", string |-> s]
Value_Array(arr) == [t |-> "Array", array |-> arr]
Value_Object(map) == [t |-> "Object", object |-> map]

\* qdrant value::Kind and Value { kind: Option<Kind> }
NullValue(v) == [kind |-> "NullValue", null |-> v]
BoolValue(v) == [kind |-> "BoolValue", bool |-> v]
IntegerValue(v) == [kind |-> "IntegerValue", integer |-> v]
DoubleValue(v) == [kind |-> "DoubleValue", double |-> v]
StringValue(v) == [kind |-> "StringValue", string |-> v]
ListValue(values) == [kind |-> "ListValue", values |-> values]
StructValue(fields) == [kind |-> "StructValue", fields |-> fields]
QdrantValue(kind) == [kind |-> kind]

ConvOk(value) == [ok |-> TRUE, value |-> value, error |-> ""]
ConvErr(message) == [ok |-> FALSE, value |-> <<>>, error |-> message]

\* .collect::<Result<_>>() over a function of results
collect(results) ==
    IF \E k \in DOMAIN results : ~results[k].ok
    THEN ConvErr(results[CHOOSE k \in DOMAIN results : ~results[k].ok].error)
    ELSE ConvOk([k \in DOMAIN results |-> results[k].value])

\* json_to_qdrant_value, qdrant.rs:161-192
RECURSIVE json_to_qdrant_value(_)
json_to_qdrant_value(value) ==
    LET kind ==
            CASE value.t = "Null" -> ConvOk(NullValue(0))
              [] value.t = "Bool" -> ConvOk(BoolValue(value.bool))
              [] value.t = "Number" ->
                     IF IsSome(as_i64(value.number))
                     THEN ConvOk(IntegerValue(Unwrap(as_i64(value.number))))
                     ELSE IF IsSome(as_f64(value.number))
                     THEN ConvOk(DoubleValue(Unwrap(as_f64(value.number))))
                     ELSE ConvErr("unsupported number value")
              [] value.t = "String" -> ConvOk(StringValue(value.string))
              [] value.t = "Array" ->
                     LET values == collect([i \in DOMAIN value.array |->
                                               json_to_qdrant_value(value.array[i])])
                     IN  IF values.ok THEN ConvOk(ListValue(values.value))
                         ELSE values
              [] OTHER ->
                     LET fields == collect([k \in DOMAIN value.object |->
                                               json_to_qdrant_value(value.object[k])])
                     IN  IF fields.ok THEN ConvOk(StructValue(fields.value))
                         ELSE fields
    IN  IF kind.ok THEN ConvOk(QdrantValue(Some(kind.value))) ELSE kind

\* qdrant_value_to_json, qdrant.rs:125-146, with qdrant_payload_to_value,
\* qdrant.rs:117-123, for the fields of a struct
RECURSIVE qdrant_value_to_json(_)
qdrant_value_to_json(value) ==
    LET kind == unwrap_or(value.kind, NullValue(0))
    IN  CASE kind.kind = "NullValue" -> ConvOk(Value_Null)
          [] kind.kind = "BoolValue" -> ConvOk(Value_Bool(kind.bool))
          [] kind.kind = "IntegerValue" ->
                 ConvOk(Value_Number(Number_from_i64(kind.integer)))
          [] kind.kind = "DoubleValue" ->
                 IF IsSome(Number_from_f64(kind.double))
                 THEN ConvOk(Value_Number(Unwrap(Number_from_f64(kind.double))))
                 ELSE ConvOk(Value_Null)
          [] kind.kind = "StringValue" -> ConvOk(Value_String(kind.string))
          [] kind.kind = "ListValue" ->
                 LET list == collect([i \in DOMAIN kind.values |->
                                         qdrant_value_to_json(kind.values[i])])
                 IN  IF list.ok THEN ConvOk(Value_Array(list.value)) ELSE list
          [] OTHER ->
                 LET map == collect([k \in DOMAIN kind.fields |->
                                        qdrant_value_to_json(kind.fields[k])])
                 IN  IF map.ok THEN ConvOk(Value_Object(map.value))
                     ELSE ConvErr("failed to convert struct payload")

(***************************************************************************)
(* qdrant.rs.                                                              *)
(***************************************************************************)
COLLECTION_NAME == "lexai_documents"
VECTOR_DIM == 384

\* the request ensure_collection builds, qdrant.rs:45-50
CreateCollectionRequest ==
    [name |-> COLLECTION_NAME, size |-> VECTOR_DIM, distance |-> "Cosine"]

QdrantDocumentPayload(document_id, chunk_text) ==
    [document_id |-> document_id, chunk_text |-> chunk_text]

\* Uuid::new_v4().to_string(): the n-th identifier generated by this process
Uuid(n) == "uuid-" \o ToString(n)

\* build_point, qdrant.rs:102-115: a fresh id, the payload, the vector
build_point(uuid, vector, payload) ==
    [id |-> uuid, payload |-> payload, vectors |-> vector]

\* document_filter, qdrant.rs:56-70: must match document_id = the keyword
document_filter(document_id) == [key |-> "document_id", keyword |-> document_id]

Matches(point, filter) ==
    ~IsSome(filter) \/ point.payload.document_id = Unwrap(filter).keyword

\* qdrant_payload_to_value, qdrant.rs:117-123, on a stored document payload
qdrant_payload_to_value(payload) ==
    [document_id |-> payload.document_id, chunk_text |-> payload.chunk_text]

\* the points the filter admits
Eligible(stored, filter) == SelectSeq(stored, LAMBDA pt : Matches(pt, filter))

\* the ways in which the index may rank its k nearest out of the points
\* numbered in S: the score of a point is the model's, so any order is possible
RECURSIVE Orderings(_, _)
Orderings(S, k) ==
    IF k = 0 THEN {<<>>}
    ELSE UNION {{<<x>> \o r : r \in Orderings(S \ {x}, k - 1)} : x \in S}

\* client.search_points, qdrant.rs:78-84: the index returns up to `limit` of
\* the points the filter admits, in the order in which it ranks them
search_points(stored, limit, filter, order) ==
    LET eligible == Eligible(stored, filter)
    IN  [i \in 1..Len(order) |-> eligible[order[i]]]

\* search, qdrant.rs:85-91: each point of the response mapped to its payload
search_results(result) ==
    [i \in 1..Len(result) |-> qdrant_payload_to_value(result[i].payload)]

(***************************************************************************)
(* dispatch, jsonrpc.rs:79-113, up to the point where a handler is         *)
(* started: the response it returns without running a handler, or the      *)
(* handler to run and its deserialized params.                             *)
(***************************************************************************)
Respond(response) == [next |-> "respond", response |-> Some(response), args |-> None]
RunHandler(handler, args) == [next |-> handler, response |-> None, args |-> Some(args)]

\* jsonrpc.rs:81, the version check
VersionOk_unchecked(request) == TRUE
VersionOk(request) == request.jsonrpc = "2.0"

\* jsonrpc.rs:111, the default arm of the match on the method name
method_not_found_as_invalid_request(id) ==
    JsonRpcResponse_error(id, -32600, "Method not found")
method_not_found(id) == JsonRpcResponse_error(id, -32601, "Method not found")

dispatch(request) ==
    LET id == unwrap_or(request.id, JNull)
        params == unwrap_or(request.params, ParamsOf("null"))
    IN  IF ~VersionOk(request)
        THEN Respond(JsonRpcResponse_error(id, -32600, "Invalid JSON-RPC version"))
        ELSE CASE request.method = "ping" ->
                    Respond(JsonRpcResponse_result(id, [status |-> "ok"]))
               [] request.method = "upload_document" ->
                    IF UploadDocumentParamsOk(params)
                    THEN RunHandler("upload_document", UploadDocumentParams(params))
                    ELSE Respond(JsonRpcResponse_error(id, -32602, "Invalid params"))
               [] request.method = "search_document" ->
                    IF SearchParamsOk(params)
                    THEN RunHandler("search_document", SearchParams(params))
                    ELSE Respond(JsonRpcResponse_error(id, -32602, "Invalid params"))
               [] OTHER -> Respond(method_not_found(id))

(***************************************************************************)
(* The inputs the model draws from.                                        *)
(***************************************************************************)
IdValues == {Absent, JNull, JInt(1), JStr("a")}
JsonrpcValues == {Absent, JStr("2.0"), JStr("1.0"), JInt(2)}
MethodValues ==
    {Absent, JStr("ping"), JStr("upload_document"), JStr("search_document"),
     JStr("foo")}
DocumentIdValues == {Absent, JStr("doc-1"), JStr("doc-2"), JInt(7)}
FilePathValues == {Absent, JStr("a.pdf"), JInt(7)}
QueryValues == {Absent, JStr(""), JStr("q"), JInt(7)}
LimitValues == {Absent, JInt(1), JInt(-1), JStr("5")}

ParamsValues ==
    {ParamsOf("absent"), ParamsOf("null"), ParamsOf("scalar")}
    \cup {ParamsObject(d, f, Absent, Absent) :
              d \in DocumentIdValues, f \in FilePathValues}
    \cup {ParamsObject(dq[1], Absent, dq[2], l) :
              dq \in DocumentIdValues \X QueryValues, l \in LimitValues}
    \cup {ParamsArray(<<>>), ParamsArray(<<JStr("q")>>),
          ParamsArray(<<JStr("doc-1"), JStr("a.pdf")>>),
          ParamsArray(<<JStr("q"), JNull, JInt(1), JInt(1)>>)}

Lines ==
    {RawLine("invalid_utf8"), RawLine("not_json"), JsonScalarLine}
    \cup {JsonObjectLine(vm[1], vm[2], pi[1], pi[2]) :
              vm \in JsonrpcValues \X MethodValues, pi \in ParamsValues \X IdValues}

\* what pdf_extract may return for a file
HelloLexai == <<"h", "e", "l", "l", "o", " ", "l", "e", "x", "a", "i">>
RawTexts == {<<>>, <<" ">>, <<" ">> \o HelloLexai \o <<"\n">>}

\* The "store" inputs: well-formed requests only, and a text that is one
\* character longer than the chunk window.
\* the text of tests::long_text_generates_expected_chunk_count,
\* document.rs:80-88: two and a half windows, three chunks
LongA == [i \in 1..2500 |-> "a"]
LongText == [i \in 1..(CHUNK_SIZE + 1) |-> IF i <= CHUNK_SIZE THEN "x" ELSE "y"]
StoreTexts == {<<>>, <<" ">> \o HelloLexai \o <<"\n">>, LongText}
StoreLines ==
    {JsonObjectLine(JStr("2.0"), JStr("upload_document"),
                    ParamsObject(d, JStr("a.pdf"), Absent, Absent), JInt(1)) :
         d \in {Absent, JStr("doc-1"), JStr("doc-2")}}
    \cup {JsonObjectLine(JStr("2.0"), JStr("search_document"),
                         ParamsObject(d, Absent, q, l), JInt(1)) :
              d \in {Absent, JStr("doc-1"), JStr("doc-2")},
              q \in {JStr(""), JStr("q")},
              l \in {Absent, JInt(1)}}
    \cup {JsonObjectLine(JStr("2.0"), JStr("ping"), ParamsOf("absent"), Absent)}

\* a point an earlier run of the worker left in the index
OldPoint ==
    build_point("uuid-old", EmbeddingVector(<<"o", "l", "d">>),
                QdrantDocumentPayload("doc-2", <<"o", "l", "d">>))

\* The "search" inputs: an index that holds more points than a search
\* without limit asks for, four chunks of doc-1 and two of doc-2 that an
\* earlier run uploaded; searches with and without filter and limit, and the
\* upload of one more chunk.
OldDocuments ==
    [i \in 1..6 |->
        build_point("uuid-old-" \o ToString(i), EmbeddingVector(<<"o", ToString(i)>>),
                    QdrantDocumentPayload(IF i <= 4 THEN "doc-1" ELSE "doc-2",
                                          <<"o", ToString(i)>>))]
SearchLines ==
    {JsonObjectLine(JStr("2.0"), JStr("upload_document"),
                    ParamsObject(JStr("doc-1"), JStr("a.pdf"), Absent, Absent), JInt(1))}
    \cup {JsonObjectLine(JStr("2.0"), JStr("search_document"),
                         ParamsObject(d, Absent, JStr("q"), l), JInt(1)) :
              d \in {Absent, JStr("doc-1")}, l \in {Absent, JInt(1)}}

LinesOf(p) ==
    IF p = "store" THEN StoreLines ELSE IF p = "search" THEN SearchLines ELSE Lines
TextsOf(p) ==
    IF p = "store" THEN StoreTexts
    ELSE IF p = "search" THEN {<<" ">> \o HelloLexai \o <<"\n">>}
    ELSE RawTexts

(***************************************************************************)
(* The state.                                                              *)
(***************************************************************************)
VARIABLES
    pc,          \* position of the thread that runs JsonRpcLoop::run
    line,        \* run's `line` buffer: None when cleared, else Some(line)
    nread,       \* number of lines read_line has returned so far
    id,          \* handle_line's `id`, the id of the request being handled
    args,        \* the handler's params, document_id resolved
    processed,   \* handle_upload_document's `processed`
    vectors,     \* the embeddings the handler computed
    batch,       \* handle_upload_document's `points`, built and not yet sent
    response,    \* run's `response`: None, or Some(JsonRpcResponse)
    outbuf,      \* lines written to the stdout writer and not yet flushed
    out,         \* lines the host can read from the worker's stdout
    collection,  \* the collection in the vector index: None, or Some(its config)
    points,      \* the points stored in the collection, in insertion order
    next_uuid,   \* how many identifiers Uuid::new_v4 has generated
    active,      \* the awaited activities that have started and not completed
    calls,       \* the collaborator calls made for the line being handled
    raw_text,    \* process_pdf's `raw_text` for that line: None, or Some(text)
    hits,        \* search's `response.result` for that line: the points returned
    profile,     \* which inputs the environment draws from, fixed by Init
    chunker,     \* a call of the chunker on its own: arguments and result
    embedder,    \* a call of EmbeddingService::embed on its own
    ort,         \* ORT_ENV and the calls of EmbeddingService::new in progress
    payload,     \* a payload conversion on its own: argument and results
    loader,      \* a call of TokenizerService::new and the encode that follows
    host         \* the host application: its RPC client, manager and terms

\* the state of the worker process and of the vector index
worker ==
    <<pc, line, nread, id, args, processed, vectors, batch, response, outbuf, out,
      collection, points, next_uuid, active, calls, raw_text, hits>>

vars == <<worker, profile, chunker, embedder, ort, payload, loader, host>>

\* what no step of the worker changes
Frame == UNCHANGED <<profile, chunker, embedder, ort, payload, loader, host>>

\* what no step of the chunker on its own changes
ChunkFrame == UNCHANGED <<worker, profile, embedder, ort, payload, loader, host>>

\* what no step of the embedding service on its own changes
EmbedFrame == UNCHANGED <<worker, profile, chunker, ort, payload, loader, host>>

\* what no call of EmbeddingService::new changes
OrtFrame == UNCHANGED <<worker, profile, chunker, embedder, payload, loader, host>>

\* what no construction of the tokenizer service changes
LoaderFrame == UNCHANGED <<worker, profile, chunker, embedder, ort, payload, host>>

\* what no step of the host application changes
HostFrame == UNCHANGED <<worker, profile, chunker, embedder, ort, payload, loader>>

\* what no payload conversion on its own changes
PayloadFrame == UNCHANGED <<worker, profile, chunker, embedder, ort, loader, host>>

NoArgs == Args(None, "", "", None)
NoDocument == ProcessedDocument(<<>>, <<>>)

NoChunker == [state |-> "idle", text |-> <<>>, size |-> 0, overlap |-> 0,
              results |-> <<>>, start |-> 0]

\* no call of embed on its own
NoEmbedder == [state |-> "idle"]

\* process start: ORT_ENV is an empty OnceCell, nobody is in its initializer,
\* no Environment was built and no EmbeddingService::new was called
NoOrt == [cell |-> None, initializing |-> {}, built |-> 0,
          pc |-> [s \in 1..MaxServices |-> "idle"],
          env |-> [s \in 1..MaxServices |-> None]]

\* no payload conversion on its own
NoPayload == [state |-> "idle"]

\* no construction of the tokenizer service on its own
NoLoader == [state |-> "idle"]

\* no host application
NoHost == [state |-> "idle"]

CollectionExists == IsSome(collection)

\* run has not been entered and the index is empty
NotStarted ==
    /\ pc = "start"
    /\ line = None
    /\ nread = 0
    /\ id = JNull
    /\ args = NoArgs
    /\ processed = NoDocument
    /\ vectors = <<>>
    /\ batch = <<>>
    /\ response = None
    /\ outbuf = <<>>
    /\ out = <<>>
    /\ collection = None
    /\ points = <<>>
    /\ next_uuid = 0
    /\ active = {}
    /\ calls = {}
    /\ raw_text = None
    /\ hits = <<>>

InitWith(p) ==
    /\ profile = p
    /\ chunker = NoChunker
    /\ embedder = NoEmbedder
    /\ ort = NoOrt
    /\ loader = NoLoader
    /\ host = NoHost
    /\ payload = NoPayload
    /\ pc = "start"
    /\ line = None
    /\ nread = 0
    /\ id = JNull
    /\ args = NoArgs
    /\ processed = NoDocument
    /\ vectors = <<>>
    /\ batch = <<>>
    /\ response = None
    /\ outbuf = <<>>
    /\ out = <<>>
    /\ collection \in {None, Some(CreateCollectionRequest)}
    /\ points \in IF p = "store" /\ CollectionExists
                 THEN {<<>>, <<OldPoint>>}
                 ELSE IF p = "search" /\ CollectionExists
                 THEN {OldDocuments}
                 ELSE {<<>>}
    /\ next_uuid = 0
    /\ active = {}
    /\ calls = {}
    /\ raw_text = None
    /\ hits = <<>>

Init == InitWith("protocol")
StoreInit == InitWith("store")

(***************************************************************************)
(* main, main.rs:3-8, RpcApp::new, manager.rs:9-17, and JsonRpcLoop::new,  *)
(* jsonrpc.rs:27-43: the vector-store client, the tokenizer, the embedding *)
(* service and the runtime are built (ok) and run is entered, or one of    *)
(* them fails and main exits with status 1 without calling run.            *)
(***************************************************************************)
Startup ==
    /\ pc = "start"
    /\ Frame
    /\ UNCHANGED <<raw_text, hits>>
    /\ \E ok \in BOOLEAN : pc' = IF ok THEN "read" ELSE "failed"
    /\ UNCHANGED <<line, nread, id, args, processed, vectors, batch, response,
                   outbuf, out, collection, points, next_uuid, active, calls>>

(***************************************************************************)
(* JsonRpcLoop::run, jsonrpc.rs:45-57.                                     *)
(***************************************************************************)
\* read_line returns 0: end of input, run returns Ok(())
\* as if run wrote one more line after the reader reported end-of-input
ReadEof_writes ==
    /\ pc = "read"
    /\ Frame
    /\ UNCHANGED <<raw_text, hits>>
    /\ pc' = "done"
    /\ out' = Append(out, nread + 1)
    /\ UNCHANGED <<line, nread, id, args, processed, vectors, batch, response, outbuf,
                   collection, points, next_uuid, active, calls>>

ReadEof ==
    /\ pc = "read"
    /\ Frame
    /\ UNCHANGED <<raw_text, hits>>
    /\ pc' = "done"
    /\ UNCHANGED <<line, nread, id, args, processed, vectors, batch, response,
                   outbuf, out, collection, points, next_uuid, active, calls>>

\* read_line returns Err (the bytes of the line are not UTF-8): the `?` at
\* jsonrpc.rs:50 makes run return the error, and main exits with status 1
ReadError ==
    /\ pc = "read"
    /\ Frame
    /\ UNCHANGED <<raw_text, hits>>
    /\ nread < MaxLines
    /\ pc' = "failed"
    /\ UNCHANGED <<line, nread, id, args, processed, vectors, batch, response,
                   outbuf, out, collection, points, next_uuid, active, calls>>

\* read_line returns a line
ReadLine ==
    /\ pc = "read"
    /\ Frame
    /\ UNCHANGED <<raw_text, hits>>
    /\ nread < MaxLines
    /\ \E l \in LinesOf(profile) :
          /\ l.kind # "invalid_utf8"
          /\ line' = Some(l)
    /\ nread' = nread + 1
    /\ pc' = "handle"
    /\ UNCHANGED <<id, args, processed, vectors, batch, response, outbuf, out,
                   collection, points, next_uuid, active, calls>>

(***************************************************************************)
(* A handler, dispatch and handle_line return: the handler's locals are    *)
(* dropped and run holds the response.                                     *)
(***************************************************************************)
Return(r) ==
    /\ response' = Some(r)
    /\ pc' = "write"
    /\ args' = NoArgs
    /\ processed' = NoDocument
    /\ vectors' = <<>>
    /\ batch' = <<>>

\* handle_line, jsonrpc.rs:70-76: Ok(response) is passed on, Err(err) becomes
\* the error -32603 with the request's id
handle_line_ok(rid, value) == JsonRpcResponse_result(rid, value)
\* as if the error response were built without the request's id
handle_line_err_null_id(rid, message) ==
    JsonRpcResponse_error(JNull, -32603, message)
\* as if a failed handler were reported as invalid params
handle_line_err_as_invalid_params(rid, message) ==
    JsonRpcResponse_error(rid, -32602, message)
handle_line_err(rid, message) == JsonRpcResponse_error(rid, -32603, message)

\* handle_line, jsonrpc.rs:60-66: the line is not a JsonRpcRequest
\* as if a line that does not parse were reported as an invalid request
handle_line_parse_error_as_invalid_request ==
    JsonRpcResponse_error(JNull, -32600, "parse error")
handle_line_parse_error == JsonRpcResponse_error(JNull, -32700, "parse error")

(***************************************************************************)
(* handle_upload_document, jsonrpc.rs:115-123: resolve the document id and *)
(* hand process_pdf to the blocking pool; the handler awaits the task.     *)
(***************************************************************************)
StartUpload(a) ==
    /\ IF IsSome(a.document_id)
       THEN /\ args' = a
            /\ next_uuid' = next_uuid
       ELSE /\ args' = [a EXCEPT !.document_id = Some(Uuid(next_uuid + 1))]
            /\ next_uuid' = next_uuid + 1
    /\ active' = active \cup {"process_pdf"}
    /\ calls' = calls \cup {"process_pdf"}
    /\ pc' = "pdf"
    /\ UNCHANGED <<processed, vectors, batch, response, collection, points>>

(***************************************************************************)
(* handle_search_document, jsonrpc.rs:156-180: reject the empty query,     *)
(* embed the query (embed_ok: whether the engine returns Ok), build the    *)
(* filter and send the search; the handler awaits the index.               *)
(***************************************************************************)
\* as if the empty query were embedded and searched like any other
StartSearch_no_empty_check(rid, a, embed_ok) ==
    IF ~embed_ok
    THEN /\ Return(handle_line_err(rid, "failed to embed query"))
         /\ calls' = calls \cup {"embed"}
         /\ UNCHANGED <<collection, points, next_uuid, active>>
    ELSE /\ args' = a
         /\ vectors' = embed(<<a.query>>)
         /\ active' = active \cup {"search_points"}
         /\ calls' = calls \cup {"embed", "search_points"}
         /\ pc' = "search"
         /\ UNCHANGED <<processed, batch, response, collection, points, next_uuid>>

StartSearch(rid, a, embed_ok) ==
    IF a.query = ""
    THEN /\ Return(handle_line_err(rid, "query text cannot be empty"))
         /\ UNCHANGED <<collection, points, next_uuid, active, calls>>
    ELSE IF ~embed_ok
    THEN /\ Return(handle_line_err(rid, "failed to embed query"))
         /\ calls' = calls \cup {"embed"}
         /\ UNCHANGED <<collection, points, next_uuid, active>>
    ELSE /\ args' = a
         /\ vectors' = embed(<<a.query>>)
         /\ active' = active \cup {"search_points"}
         /\ calls' = calls \cup {"embed", "search_points"}
         /\ pc' = "search"
         /\ UNCHANGED <<processed, batch, response, collection, points, next_uuid>>

(***************************************************************************)
(* handle_line, jsonrpc.rs:59-77, with dispatch, up to the first await of  *)
(* the handler it starts or to its return.                                 *)
(***************************************************************************)
HandleLine ==
    /\ pc = "handle"
    /\ Frame
    /\ UNCHANGED <<raw_text, hits>>
    /\ LET l == Unwrap(line)
           request == JsonRpcRequest(l)
           rid == unwrap_or(request.id, JNull)
           d == dispatch(request)
       IN  IF ~RequestParses(l)
           THEN /\ Return(handle_line_parse_error)
                /\ UNCHANGED <<id, collection, points, next_uuid, active, calls>>
           ELSE /\ id' = rid
                /\ CASE d.next = "respond" ->
                          /\ Return(Unwrap(d.response))
                          /\ UNCHANGED <<collection, points, next_uuid, active, calls>>
                     [] d.next = "upload_document" ->
                          StartUpload(Unwrap(d.args))
                     [] d.next = "search_document" ->
                          \E embed_ok \in BOOLEAN :
                              StartSearch(rid, Unwrap(d.args), embed_ok)
    /\ UNCHANGED <<line, nread, outbuf, out>>

(***************************************************************************)
(* handle_upload_document, jsonrpc.rs:121-135: the blocking task           *)
(* completes (joined: FALSE when the task panicked and the join fails);    *)
(* then the chunks are embedded (embed_ok) and ensure_collection sends     *)
(* its existence check, which the handler awaits.                          *)
(***************************************************************************)
\* as if the handler answered without awaiting the blocking task
PdfTaskDone_not_awaited ==
    /\ pc = "pdf"
    /\ Frame
    /\ UNCHANGED <<raw_text, hits>>
    /\ Return(handle_line_ok(id, [status |-> "processing"]))
    /\ UNCHANGED <<line, nread, id, outbuf, out, collection, points, next_uuid,
                   active, calls>>

PdfTaskDone ==
    /\ pc = "pdf"
    /\ Frame
    /\ \E joined \in BOOLEAN, exists \in BOOLEAN, embed_ok \in BOOLEAN,
          extracted \in {None} \cup {Some(t) : t \in TextsOf(profile)} :
          LET r == process_pdf(exists, extracted)
              done == active \ {"process_pdf"}
          IN  (raw_text' = IF joined /\ exists THEN extracted ELSE None) /\ UNCHANGED hits /\
              IF ~joined
              THEN /\ Return(handle_line_err(id, "pdf processing task failed"))
                   /\ active' = done
                   /\ UNCHANGED calls
              ELSE IF ~r.ok
              THEN /\ Return(handle_line_err(id, r.error))
                   /\ active' = done
                   /\ calls' = calls \cup r.called
              ELSE IF Len(r.chunks) = 0
              THEN /\ Return(handle_line_err(id, "no chunks generated for document"))
                   /\ active' = done
                   /\ calls' = calls \cup r.called
              ELSE IF ~embed_ok
              THEN /\ Return(handle_line_err(id, "embedding generation failed"))
                   /\ active' = done
                   /\ calls' = calls \cup r.called \cup {"embed"}
              ELSE /\ processed' = r
                   /\ vectors' = embed(r.chunks)
                   /\ active' = done \cup {"collection_exists"}
                   /\ calls' = calls \cup r.called \cup {"embed", "collection_exists"}
                   /\ pc' = "exists"
                   /\ UNCHANGED <<args, batch, response>>
    /\ UNCHANGED <<line, nread, id, outbuf, out, collection, points, next_uuid>>

(***************************************************************************)
(* handle_upload_document, jsonrpc.rs:136-146: one point per               *)
(* (vector, chunk) pair, each under a fresh id, then the batch is sent     *)
(* with wait(true) and the handler awaits the acknowledgement.             *)
(***************************************************************************)
BuildPoints ==
    [i \in 1..Min(Len(vectors), Len(processed.chunks)) |->
        build_point(Uuid(next_uuid + i), vectors[i],
                    QdrantDocumentPayload(Unwrap(args.document_id),
                                          processed.chunks[i]))]

StartUpsert(running) ==
    /\ batch' = BuildPoints
    /\ next_uuid' = next_uuid + Len(BuildPoints)
    /\ active' = running \cup {"upsert_points"}
    /\ calls' = calls \cup {"upsert_points"}
    /\ pc' = "upsert"
    /\ UNCHANGED <<args, processed, vectors, response>>

(***************************************************************************)
(* ensure_collection, qdrant.rs:42-54.                                     *)
(***************************************************************************)
\* as if ensure_collection sent the create whatever the check reported
CollectionExistsDone_always_creates ==
    /\ pc = "exists"
    /\ Frame
    /\ UNCHANGED <<raw_text, hits>>
    /\ \E ok \in BOOLEAN :
          IF ~ok
          THEN /\ Return(handle_line_err(id, "collection_exists failed"))
               /\ active' = active \ {"collection_exists"}
               /\ UNCHANGED <<next_uuid, calls>>
          ELSE /\ active' = (active \ {"collection_exists"}) \cup {"create_collection"}
               /\ calls' = calls \cup {"create_collection"}
               /\ pc' = "create"
               /\ UNCHANGED <<args, processed, vectors, batch, response, next_uuid>>
    /\ UNCHANGED <<line, nread, id, outbuf, out, collection, points>>

\* collection_exists answers (ok) or fails
CollectionExistsDone ==
    /\ pc = "exists"
    /\ Frame
    /\ UNCHANGED <<raw_text, hits>>
    /\ \E ok \in BOOLEAN :
          IF ~ok
          THEN /\ Return(handle_line_err(id, "collection_exists failed"))
               /\ active' = active \ {"collection_exists"}
               /\ UNCHANGED <<next_uuid, calls>>
          ELSE IF ~CollectionExists
          THEN /\ active' = (active \ {"collection_exists"}) \cup {"create_collection"}
               /\ calls' = calls \cup {"create_collection"}
               /\ pc' = "create"
               /\ UNCHANGED <<args, processed, vectors, batch, response, next_uuid>>
          ELSE StartUpsert(active \ {"collection_exists"})
    /\ UNCHANGED <<line, nread, id, outbuf, out, collection, points>>

\* create_collection answers (ok) or fails
CreateCollectionDone ==
    /\ pc = "create"
    /\ Frame
    /\ UNCHANGED <<raw_text, hits>>
    /\ \E ok \in BOOLEAN :
          IF ~ok
          THEN /\ Return(handle_line_err(id, "create_collection failed"))
               /\ active' = active \ {"create_collection"}
               /\ UNCHANGED <<collection, next_uuid, calls>>
          ELSE /\ collection' = Some(CreateCollectionRequest)
               /\ StartUpsert(active \ {"create_collection"})
    /\ UNCHANGED <<line, nread, id, outbuf, out, points>>

(***************************************************************************)
(* upsert_points, qdrant.rs:94-100, and the handler's result,              *)
(* jsonrpc.rs:146-153.                                                     *)
(***************************************************************************)
\* as if chunk_count reported the length of the text
UploadResult_counts_characters ==
    [document_id |-> Unwrap(args.document_id), status |-> "processed",
     chunk_count |-> Len(processed.text), extracted_text |-> processed.text]

UploadResult ==
    [document_id |-> Unwrap(args.document_id), status |-> "processed",
     chunk_count |-> Len(processed.chunks), extracted_text |-> processed.text]

\* as if the upsert replaced the points the document already had
UpsertDone_replaces_document ==
    /\ pc = "upsert"
    /\ Frame
    /\ UNCHANGED <<raw_text, hits>>
    /\ \E ok \in BOOLEAN :
          IF ~ok
          THEN /\ Return(handle_line_err(id, "upsert_points failed"))
               /\ UNCHANGED points
          ELSE /\ points' =
                    SelectSeq(points,
                              LAMBDA pt : pt.payload.document_id #
                                              Unwrap(args.document_id)) \o batch
               /\ Return(handle_line_ok(id, UploadResult))
    /\ active' = active \ {"upsert_points"}
    /\ UNCHANGED <<line, nread, id, outbuf, out, collection, next_uuid, calls>>

\* as if the batch were sent without wait(true): the handler answers
\* before the index has applied the write
UpsertDone_unacknowledged ==
    /\ pc = "upsert"
    /\ Frame
    /\ UNCHANGED <<raw_text, hits>>
    /\ \E ok \in BOOLEAN :
          IF ~ok
          THEN Return(handle_line_err(id, "upsert_points failed"))
          ELSE Return(handle_line_ok(id, UploadResult))
    /\ active' = active \ {"upsert_points"}
    /\ UNCHANGED <<line, nread, id, outbuf, out, collection, points, next_uuid,
                   calls>>

\* upsert_points, qdrant.rs:94-100, under the client's timeout, qdrant.rs:33:
\* an error reaches the handler when the index rejected the write, and also
\* when the index applied it and the acknowledgement did not arrive in time
UpsertDone ==
    /\ pc = "upsert"
    /\ Frame
    /\ UNCHANGED <<raw_text, hits>>
    /\ \E ok \in BOOLEAN :
          IF ~ok
          THEN /\ Return(handle_line_err(id, "upsert_points failed"))
               /\ \E applied \in BOOLEAN :
                     points' = IF applied THEN points \o batch ELSE points
          ELSE /\ points' = points \o batch
               /\ Return(handle_line_ok(id, UploadResult))
    /\ active' = active \ {"upsert_points"}
    /\ UNCHANGED <<line, nread, id, outbuf, out, collection, next_uuid, calls>>

(***************************************************************************)
(* search, qdrant.rs:72-92, and the handler's result, jsonrpc.rs:170-182.  *)
(* The index answers only for a collection that exists.                    *)
(***************************************************************************)
\* as if the search were sent without the filter
SearchFilter_none == None

SearchFilter ==
    IF IsSome(args.document_id)
    THEN Some(document_filter(Unwrap(args.document_id)))
    ELSE None

\* as if the index were asked for every point it holds
search_limit_ignored == Len(points)

\* params.limit.unwrap_or(5), jsonrpc.rs:179
search_limit == unwrap_or(args.limit, 5)

\* json!({ "results": results }), jsonrpc.rs:182
SearchResult(result) == [results |-> search_results(result)]

SearchDone ==
    /\ pc = "search"
    /\ Frame
    /\ UNCHANGED raw_text
    /\ \E ok \in BOOLEAN,
          order \in Orderings(1..Len(Eligible(points, SearchFilter)),
                              Min(search_limit, Len(Eligible(points, SearchFilter)))) :
          IF ok /\ CollectionExists
          THEN /\ hits' = search_points(points, search_limit, SearchFilter, order)
               /\ Return(handle_line_ok(id, SearchResult(hits')))
          ELSE /\ hits' = <<>>
               /\ Return(handle_line_err(id, "search_points failed"))
    /\ active' = active \ {"search_points"}
    /\ UNCHANGED <<line, nread, id, outbuf, out, collection, points, next_uuid,
                   calls>>

(***************************************************************************)
(* JsonRpcLoop::run, jsonrpc.rs:52-54: writeln!, writer.flush() and        *)
(* line.clear(); the response goes out of scope.  A line of output is      *)
(* named by the number of the input line whose response it is.             *)
(***************************************************************************)
\* as if a request without an id were a notification that gets no response
WriteResponse_skips_notification ==
    /\ pc = "write"
    /\ Frame
    /\ raw_text' = None
    /\ hits' = <<>>
    /\ out' = IF Unwrap(line).id.t = "absent" THEN out
              ELSE out \o Append(outbuf, nread)
    /\ outbuf' = <<>>
    /\ line' = None
    /\ response' = None
    /\ id' = JNull
    /\ calls' = {}
    /\ pc' = "read"
    /\ UNCHANGED <<nread, args, processed, vectors, batch, collection, points,
                   next_uuid, active>>

WriteResponse ==
    /\ pc = "write"
    /\ Frame
    /\ raw_text' = None
    /\ hits' = <<>>
    /\ out' = out \o Append(outbuf, nread)
    /\ outbuf' = <<>>
    /\ line' = None
    /\ response' = None
    /\ id' = JNull
    /\ calls' = {}
    /\ pc' = "read"
    /\ UNCHANGED <<nread, args, processed, vectors, batch, collection, points,
                   next_uuid, active>>

Next ==
    \/ Startup
    \/ ReadEof
    \/ ReadError
    \/ ReadLine
    \/ HandleLine
    \/ PdfTaskDone
    \/ CollectionExistsDone
    \/ CreateCollectionDone
    \/ UpsertDone
    \/ SearchDone
    \/ WriteResponse

Spec == Init /\ [][Next]_vars

\* the same worker, fed the "store" inputs
StoreSpec == StoreInit /\ [][Next]_vars

\* the worker fed with the "search" inputs
SearchInit == InitWith("search")
SearchSpec == SearchInit /\ [][Next]_vars

\* Every step that is possible is eventually taken: the reader answers
\* (a line, end-of-input or an error), and each handler, each blocking task
\* and each vector-store call that run awaits returns.
LiveSpec == StoreSpec /\ WF_vars(Next)

(***************************************************************************)
(* split_into_chunks on its own, document.rs:35-62: the text, the window   *)
(* size and the overlap are drawn at the start, and one step applies the   *)
(* function.  The worker does not run.                                     *)
(***************************************************************************)
Alphabet == {"a", "b", " "}
Texts == UNION {[1..n -> Alphabet] : n \in 0..MaxTextLen}
Blank == [i \in 1..CHUNK_SIZE |-> " "]
\* the text of tests::overlapping_regions_are_preserved, document.rs:90-105
LongXYZ == [i \in 1..2600 |-> IF i <= 1000 THEN "x" ELSE IF i <= 1800 THEN "y" ELSE "z"]

\* small windows with every small text; the window of the build with a
\* text that fills it and one that exceeds it by a character
ChunkInputs ==
    {[text |-> t, size |-> w, overlap |-> o] :
        t \in Texts, w \in 1..MaxWindow, o \in 0..MaxOverlap}
    \cup {[text |-> t, size |-> CHUNK_SIZE, overlap |-> CHUNK_OVERLAP] :
             t \in {<<>>, HelloLexai, Blank, LongText, LongA, LongXYZ}}

\* for the loop taken one iteration at a time only the length of the text
\* matters
LoopInputs == {in \in ChunkInputs : \A i \in 1..Len(in.text) : in.text[i] # "b"}

ChunkInitOver(inputs, p) ==
    /\ profile = p
    /\ \E in \in inputs :
          chunker = [state |-> "ready", text |-> in.text, size |-> in.size,
                     overlap |-> in.overlap, results |-> <<>>, start |-> 0]
    /\ embedder = NoEmbedder
    /\ ort = NoOrt
    /\ loader = NoLoader
    /\ host = NoHost
    /\ payload = NoPayload
    /\ NotStarted

ChunkInit == ChunkInitOver(ChunkInputs, "chunker")
LoopInit == ChunkInitOver(LoopInputs, "loop")

SplitText ==
    /\ chunker.state = "ready"
    /\ chunker' = [chunker EXCEPT
                      !.state = "done",
                      !.results = split_with(chunker.text, chunker.size,
                                             chunker.overlap)]
    /\ ChunkFrame

ChunkNext == SplitText

ChunkSpec == ChunkInit /\ [][ChunkNext]_vars

(***************************************************************************)
(* split_into_chunks one iteration at a time, document.rs:35-62.           *)
(***************************************************************************)
\* document.rs:36-43: the empty text returns at once, else the loop is set up
SplitEnter ==
    /\ chunker.state = "ready"
    /\ chunker' = IF Len(chunker.text) = 0
                  THEN [chunker EXCEPT !.state = "done"]
                  ELSE [chunker EXCEPT !.state = "loop", !.start = 0]
    /\ ChunkFrame

\* document.rs:45-59: the loop test and one pass through the body
LoopIteration ==
    /\ chunker.state = "loop"
    /\ LET len == Len(chunker.text)
           end == Min(chunker.start + chunker.size, len)
           pushed == Append(chunker.results,
                            SubSeq(chunker.text, chunker.start + 1, end))
       IN  chunker' =
              IF ~(chunker.start < len)
              THEN [chunker EXCEPT !.state = "done"]
              ELSE IF end = len
              THEN [chunker EXCEPT !.state = "done", !.results = pushed]
              ELSE [chunker EXCEPT
                      !.results = pushed,
                      !.start = next_start(end, chunker.size, chunker.overlap)]
    /\ ChunkFrame

LoopNext == SplitEnter \/ LoopIteration

\* the thread that runs the loop keeps running
LoopSpec == LoopInit /\ [][LoopNext]_vars /\ WF_vars(LoopNext)

(***************************************************************************)
(* EmbeddingService::embed on its own, embeddings.rs:46-89: the assets     *)
(* (tokenizer vocabulary and configuration, model) and the batch of texts  *)
(* are drawn at the start, and one step applies the function.              *)
(***************************************************************************)
EmbedTexts == {Repeat("a", n) : n \in 0..MaxChars} \cup {<<"b">>}
EmbedBatches == UNION {[1..n -> EmbedTexts] : n \in 0..MaxBatch}

\* tokenizer assets: a vocabulary with the pad token the configuration
\* names, and one without it
Tokenizers ==
    {TokenizerService(vocab, TokenizerConfig(Some(m), "[PAD]")) :
        vocab \in {{"[PAD]", "[CLS]", "[SEP]", "a", "b"},
                   {"<pad>", "[CLS]", "[SEP]", "a", "b"}},
        m \in {3, 4}}

Models ==
    {Model(kind, weight, noise) :
        kind \in {"token_level", "pooled", "other_rank", "failing"},
        weight \in {0, 1}, noise \in {0, 1}}

EmbedInit ==
    /\ profile = "embedder"
    /\ chunker = NoChunker
    /\ ort = NoOrt
    /\ loader = NoLoader
    /\ host = NoHost
    /\ payload = NoPayload
    /\ \E texts \in EmbedBatches, tokenizer \in Tokenizers, model \in Models :
          embedder = [state |-> "ready", texts |-> texts, tokenizer |-> tokenizer,
                      model |-> model, batch |-> EncodeErr(""),
                      result |-> EmbedErr("")]
    /\ NotStarted

Embed ==
    /\ embedder.state = "ready"
    /\ embedder' = [embedder EXCEPT
                       !.state = "done",
                       !.batch = encode(embedder.tokenizer, embedder.texts),
                       !.result = EmbeddingService_embed(embedder.tokenizer,
                                                         embedder.model,
                                                         embedder.texts)]
    /\ EmbedFrame

EmbedNext == Embed

EmbedSpec == EmbedInit /\ [][EmbedNext]_vars

(***************************************************************************)
(* mean_pool and normalize on their own, embeddings.rs:91-132: any mask    *)
(* over a small output array, rows without an unmasked position included.  *)
(***************************************************************************)
PoolRows == {<<0, 0>>, <<1, 2>>, <<3, 4>>}

PoolInit ==
    /\ profile = "pool"
    /\ chunker = NoChunker
    /\ ort = NoOrt
    /\ loader = NoLoader
    /\ host = NoHost
    /\ payload = NoPayload
    /\ \E batch_len \in 1..2, seq_len \in 1..2 :
          \E embeddings \in [1..(batch_len * seq_len) -> PoolRows],
             attention \in [1..(batch_len * seq_len) -> {0, 1}] :
              embedder = [state |-> "ready", batch_len |-> batch_len,
                          seq_len |-> seq_len, embeddings |-> embeddings,
                          attention |-> attention, pooled |-> <<>>, vectors |-> <<>>]
    /\ NotStarted

\* Self::normalize(Self::mean_pool(..)), embeddings.rs:87-88
Pool ==
    /\ embedder.state = "ready"
    /\ LET pooled == mean_pool(embedder.batch_len, embedder.seq_len, 2,
                               embedder.embeddings, embedder.attention)
       IN  embedder' = [embedder EXCEPT !.state = "done", !.pooled = pooled,
                                        !.vectors = normalize(pooled)]
    /\ EmbedFrame

PoolSpec == PoolInit /\ [][Pool]_vars

(***************************************************************************)
(* EmbeddingService::new under concurrent callers, embeddings.rs:21-44.    *)
(* ORT_ENV is a once_cell::sync::OnceCell: get_or_try_init returns the     *)
(* value when the cell is set; otherwise one caller at a time runs the     *)
(* initializer while the others wait, the cell is set when the initializer *)
(* returns Ok and left empty when it returns Err.  Environments are named  *)
(* by the order in which they were built.                                  *)
(***************************************************************************)
OrtInit ==
    /\ profile = "ort"
    /\ chunker = NoChunker
    /\ embedder = NoEmbedder
    /\ ort = NoOrt
    /\ loader = NoLoader
    /\ host = NoHost
    /\ payload = NoPayload
    /\ NotStarted

\* a thread calls EmbeddingService::new and reaches ORT_ENV.get_or_try_init
NewEnter(s) ==
    /\ ort.pc[s] = "idle"
    /\ ort' = [ort EXCEPT !.pc[s] = "get"]
    /\ OrtFrame

\* get_or_try_init finds the cell set and clones the Arc, embeddings.rs:25-34
GetInitialized(s) ==
    /\ ort.pc[s] = "get"
    /\ IsSome(ort.cell)
    /\ ort' = [ort EXCEPT !.pc[s] = "session", !.env[s] = ort.cell]
    /\ OrtFrame

\* as if callers that find the cell empty all ran the initializer
InitEnter_unsynchronised(s) ==
    /\ ort.pc[s] = "get"
    /\ ort.cell = None
    /\ ort' = [ort EXCEPT !.pc[s] = "init",
                          !.initializing = ort.initializing \cup {s}]
    /\ OrtFrame

\* get_or_try_init finds the cell empty and nobody initializing it: this
\* caller runs the closure of embeddings.rs:26-33; a caller that finds an
\* initializer running waits
InitEnter(s) ==
    /\ ort.pc[s] = "get"
    /\ ort.cell = None
    /\ ort.initializing = {}
    /\ ort' = [ort EXCEPT !.pc[s] = "init", !.initializing = {s}]
    /\ OrtFrame

\* Environment::builder()..build() returns Ok: the cell is set to the new
\* environment and the caller goes on with it
InitOk(s) ==
    /\ ort.pc[s] = "init"
    /\ ort' = [ort EXCEPT !.pc[s] = "session",
                          !.built = ort.built + 1,
                          !.cell = Some(ort.built + 1),
                          !.env[s] = Some(ort.built + 1),
                          !.initializing = ort.initializing \ {s}]
    /\ OrtFrame

\* build() returns Err: the cell stays empty and `?` makes new return Err
InitErr(s) ==
    /\ ort.pc[s] = "init"
    /\ ort' = [ort EXCEPT !.pc[s] = "failed",
                          !.initializing = ort.initializing \ {s}]
    /\ OrtFrame

\* SessionBuilder::new(&env)..with_model_from_file(..), embeddings.rs:36-43:
\* the service is returned, holding a session of the environment it got
SessionOk(s) ==
    /\ ort.pc[s] = "session"
    /\ ort' = [ort EXCEPT !.pc[s] = "done"]
    /\ OrtFrame

\* one of the `?` of embeddings.rs:36-41 returns Err
SessionErr(s) ==
    /\ ort.pc[s] = "session"
    /\ ort' = [ort EXCEPT !.pc[s] = "failed"]
    /\ OrtFrame

OrtNext ==
    \E s \in 1..MaxServices :
        \/ NewEnter(s)
        \/ GetInitialized(s)
        \/ InitEnter(s)
        \/ InitOk(s)
        \/ InitErr(s)
        \/ SessionOk(s)
        \/ SessionErr(s)

OrtSpec == OrtInit /\ [][OrtNext]_vars

(***************************************************************************)
(* The payload conversions on their own: a JSON value is converted to the  *)
(* index's representation and back.                                        *)
(***************************************************************************)
Integers64 ==
    {Value_Number(PosInt(u)) : u \in 0..U64_MAX}
        \cup {Value_Number(NegInt(i)) : i \in (-(I64_MAX + 1))..(-1)}

\* 0.5, 1.0, 1.5, -1.0 and the powers of two at the edge of i64 and u64
Floats ==
    {Value_Number(Float(F64(h))) :
        h \in {1, 2, 3, -2, 2 * (I64_MAX + 1), 2 * (U64_MAX + 1)}}

Leaves ==
    {Value_Null, Value_Bool(TRUE), Value_Bool(FALSE),
     Value_String(""), Value_String("a")} \cup Integers64 \cup Floats

\* the items of arrays and objects
Items ==
    {Value_Null, Value_Bool(TRUE), Value_String("a"),
     Value_Number(PosInt(1)), Value_Number(Float(F64(2)))}

ArraysOf(items) ==
    {Value_Array(a) : a \in UNION {[1..n -> items] : n \in 0..MaxItems}}
ObjectsOf(items) ==
    {Value_Object(m) : m \in UNION {[keys -> items] : keys \in SUBSET {"k", "l"}}}

Nested == ArraysOf(Items) \cup ObjectsOf(Items)

JsonValues ==
    Leaves \cup Nested
        \cup {Value_Array(<<v>>) : v \in Nested}
        \cup {Value_Object([k \in {"k"} |-> v]) : v \in Nested}

PayloadInit ==
    /\ profile = "payload"
    /\ chunker = NoChunker
    /\ embedder = NoEmbedder
    /\ ort = NoOrt
    /\ loader = NoLoader
    /\ host = NoHost
    /\ \E value \in JsonValues :
          payload = [state |-> "ready", value |-> value,
                     forward |-> ConvErr(""), back |-> ConvErr("")]
    /\ NotStarted

\* json_to_qdrant_value(value), then qdrant_value_to_json of the result
Convert ==
    /\ payload.state = "ready"
    /\ LET forward == json_to_qdrant_value(payload.value)
       IN  payload' = [payload EXCEPT
                          !.state = "done",
                          !.forward = forward,
                          !.back = IF forward.ok THEN qdrant_value_to_json(forward.value)
                                   ELSE ConvErr(forward.error)]
    /\ PayloadFrame

PayloadNext == Convert
PayloadSpec == PayloadInit /\ [][PayloadNext]_vars

(***************************************************************************)
(* TokenizerService::new, tokenizer.rs:37-66, on its own, followed by one  *)
(* encode of the service it built.  The assets are the model base          *)
(* directory, tokenizer.json (its vocabulary, or None when it does not     *)
(* load) and tokenizer_config.json: unreadable, not JSON of the expected   *)
(* types, or an object.  Of an object only the keys below matter; None     *)
(* stands for a key the object does not have.                              *)
(***************************************************************************)
DEFAULT_MAX_LENGTH == 512

ConfigFile(kind, model_max_length, modelMaxLength, pad_token, padToken) ==
    [kind |-> kind, model_max_length |-> model_max_length,
     modelMaxLength |-> modelMaxLength, pad_token |-> pad_token,
     padToken |-> padToken]

\* TokenizerConfig::default_pad_token, tokenizer.rs:16-20
default_pad_token == "<pad>"

\* serde_json::from_slice::<TokenizerConfig>, tokenizer.rs:8-14: the derive
\* renames the fields to camelCase, so the keys read are modelMaxLength
\* and padToken; every other key of the object is ignored
TokenizerConfig_from_slice(file) ==
    IF file.kind # "object" THEN [ok |-> FALSE]
    ELSE [ok |-> TRUE,
          config |-> TokenizerConfig(file.modelMaxLength,
                                     unwrap_or(file.padToken, default_pad_token))]

LoadErr(message) == [ok |-> FALSE, error |-> message]

\* TokenizerService::new, tokenizer.rs:37-54, with model_base_path, 56-66
TokenizerService_new(assets) ==
    IF ~assets.base_exists THEN LoadErr("model assets not found")
    ELSE IF ~IsSome(assets.tokenizer) THEN LoadErr("failed to load tokenizer")
    ELSE IF assets.config.kind = "unreadable" THEN LoadErr("io error")
    ELSE LET parsed == TokenizerConfig_from_slice(assets.config)
         IN  IF ~parsed.ok THEN LoadErr("failed to parse tokenizer config")
             ELSE [ok |-> TRUE,
                   service |-> TokenizerService(Unwrap(assets.tokenizer),
                                                parsed.config)]

Vocabularies ==
    {{"[PAD]", "[CLS]", "[SEP]", "a", "b"}, {"<pad>", "[CLS]", "[SEP]", "a", "b"}}

ConfigFiles ==
    {ConfigFile("unreadable", None, None, None, None),
     ConfigFile("malformed", None, None, None, None)}
    \cup {ConfigFile("object", snake_len, camel_len, snake_pad, camel_pad) :
             snake_len \in {None, Some(3)}, camel_len \in {None, Some(4)},
             snake_pad \in {None, Some("[PAD]")},
             camel_pad \in {None, Some("[PAD]"), Some("<pad>")}}

TokenizerAssets ==
    {[base_exists |-> b, tokenizer |-> t, config |-> c] :
        b \in BOOLEAN, t \in {None} \cup {Some(v) : v \in Vocabularies},
        c \in ConfigFiles}

LoaderBatches == {<<>>, <<<<"a">>>>, <<<<"a", "a", "a">>, <<"b">>>>}

LoaderInit ==
    /\ profile = "loader"
    /\ chunker = NoChunker
    /\ embedder = NoEmbedder
    /\ ort = NoOrt
    /\ payload = NoPayload
    /\ host = NoHost
    /\ \E assets \in TokenizerAssets :
          loader = [state |-> "ready", assets |-> assets,
                    created |-> LoadErr(""), texts |-> <<>>,
                    encoded |-> EncodeErr("")]
    /\ NotStarted

\* JsonRpcLoop::new calls TokenizerService::new, jsonrpc.rs:27-43
TokenizerNew ==
    /\ loader.state = "ready"
    /\ LET created == TokenizerService_new(loader.assets)
       IN  loader' = [loader EXCEPT !.created = created,
                                    !.state = IF created.ok THEN "constructed"
                                              ELSE "failed"]
    /\ LoaderFrame

\* the service that was constructed encodes a batch, embeddings.rs:56
TokenizerEncode ==
    /\ loader.state = "constructed"
    /\ \E texts \in LoaderBatches :
          loader' = [loader EXCEPT !.texts = texts,
                                   !.encoded = encode(loader.created.service, texts),
                                   !.state = "encoded"]
    /\ LoaderFrame

LoaderNext == TokenizerNew \/ TokenizerEncode

LoaderSpec == LoaderInit /\ [][LoaderNext]_vars

(***************************************************************************)
(* The host application, src/client/src-tauri/src/lib.rs.                  *)
(*                                                                         *)
(* apply_review_result, lib.rs:1380-1408, on the terms table.  A term row  *)
(* is its review_stage; a new term has stage 0 (lib.rs:1844-1870).  The    *)
(* stages that MaxReviews calls can reach are far from the ends of i64, so *)
(* the saturating operations of i64 never saturate.                        *)
(***************************************************************************)
MAX_STAGE == 5

\* i64::saturating_add and i64::saturating_sub
i64_saturating_add(a, b) == a + b
i64_saturating_sub(a, b) == a - b

Max(a, b) == IF a >= b THEN a ELSE b

\* lib.rs:1391-1396
next_stage(current_stage, known) ==
    IF known THEN Min(i64_saturating_add(current_stage, 1), MAX_STAGE)
    ELSE i64_saturating_sub(current_stage, 1)

TermIds == {1, 2}
StoredTermIds == {1}

ReviewInit ==
    /\ profile = "review"
    /\ chunker = NoChunker
    /\ embedder = NoEmbedder
    /\ ort = NoOrt
    /\ payload = NoPayload
    /\ loader = NoLoader
    /\ host = [state |-> "review",
               terms |-> [t \in StoredTermIds |-> 0],
               reviewed |-> [t \in StoredTermIds |-> FALSE],
               calls |-> 0,
               last |-> [id |-> 0, known |-> FALSE, ok |-> TRUE]]
    /\ NotStarted

\* submit_review_result, lib.rs:1371-1378, calls apply_review_result
ApplyReviewResult ==
    /\ host.state = "review"
    /\ host.calls < MaxReviews
    /\ \E term_id \in TermIds, known \in BOOLEAN :
          IF term_id \notin DOMAIN host.terms
          THEN host' = [host EXCEPT
                           !.calls = @ + 1,
                           !.last = [id |-> term_id, known |-> known, ok |-> FALSE]]
          ELSE host' = [host EXCEPT
                           !.terms[term_id] = next_stage(@, known),
                           !.reviewed[term_id] = TRUE,
                           !.calls = @ + 1,
                           !.last = [id |-> term_id, known |-> known, ok |-> TRUE]]
    /\ HostFrame

ReviewSpec == ReviewInit /\ [][ApplyReviewResult]_vars

(***************************************************************************)
(* RpcClient::call, lib.rs:138-200, made by the tasks of the host on one   *)
(* client.  The worker reads the request lines in order and answers each   *)
(* with one line that carries the id of its request (JsonRpcLoop::run,     *)
(* jsonrpc.rs:45-76).  A line is kept as the id it carries.                *)
(***************************************************************************)
Tasks == 1..MaxTasks

NotReturned == [kind |-> "none", id |-> 0]

ClientInit ==
    /\ profile = "client"
    /\ chunker = NoChunker
    /\ embedder = NoEmbedder
    /\ ort = NoOrt
    /\ payload = NoPayload
    /\ loader = NoLoader
    /\ host = [state |-> "client",
               next_id |-> 1,
               stdin |-> <<>>,
               stdout |-> <<>>,
               stdout_lock |-> 0,
               pc |-> [t \in Tasks |-> "idle"],
               request_id |-> [t \in Tasks |-> 0],
               returned |-> [t \in Tasks |-> NotReturned]]
    /\ NotStarted

\* lib.rs:151-173: next_id.fetch_add(1), then the request line is written
\* and flushed under the stdin lock
CallWrite(t) ==
    /\ host.state = "client"
    /\ host.pc[t] = "idle"
    /\ host.next_id <= MaxCalls
    /\ host' = [host EXCEPT !.next_id = @ + 1,
                            !.request_id[t] = host.next_id,
                            !.stdin = Append(@, host.next_id),
                            !.returned[t] = NotReturned,
                            !.pc[t] = "written"]
    /\ HostFrame

\* lib.rs:177: self.stdout.lock().await
CallLockStdout(t) ==
    /\ host.state = "client"
    /\ host.pc[t] = "written"
    /\ host.stdout_lock = 0
    /\ host' = [host EXCEPT !.stdout_lock = t, !.pc[t] = "reading"]
    /\ HostFrame

\* lib.rs:178-199: read_line returns the next line of the worker's stdout,
\* and its result (or error) member is returned without a look at its id
CallReadLine(t) ==
    /\ host.state = "client"
    /\ host.pc[t] = "reading"
    /\ host.stdout # <<>>
    /\ host' = [host EXCEPT
                   !.stdout = Tail(@),
                   !.stdout_lock = 0,
                   !.returned[t] = [kind |-> "ok", id |-> Head(host.stdout)],
                   !.pc[t] = "idle"]
    /\ HostFrame

\* lib.rs:178-180: no line arrived within response_timeout
CallTimeout(t) ==
    /\ host.state = "client"
    /\ host.pc[t] = "reading"
    /\ host.stdout = <<>>
    /\ host' = [host EXCEPT
                   !.stdout_lock = 0,
                   !.returned[t] = [kind |-> "timeout", id |-> 0],
                   !.pc[t] = "idle"]
    /\ HostFrame

\* the worker answers the oldest request line it has not answered yet
WorkerAnswers ==
    /\ host.state = "client"
    /\ host.stdin # <<>>
    /\ host' = [host EXCEPT !.stdin = Tail(@),
                            !.stdout = Append(@, Head(host.stdin))]
    /\ HostFrame

ClientNext ==
    \/ \E t \in Tasks : CallWrite(t)
    \/ \E t \in Tasks : CallLockStdout(t)
    \/ \E t \in Tasks : CallReadLine(t)
    \/ \E t \in Tasks : CallTimeout(t)
    \/ WorkerAnswers

ClientSpec == ClientInit /\ [][ClientNext]_vars

(***************************************************************************)
(* RpcManager, lib.rs:530-559, restart_backend, lib.rs:832-841, and the    *)
(* window-close hook, lib.rs:1696-1707, run by the tasks of the host.      *)
(* Worker processes are numbered in the order they are spawned.  A client  *)
(* is an Arc: the slot and every task that was handed it hold a reference, *)
(* and the child is spawned with kill_on_drop(true) (lib.rs:701), so a     *)
(* worker is killed when the last reference to its client is dropped.      *)
(***************************************************************************)
Workers(h) == 1..h.spawned

\* the workers whose client no one refers to
Unreferenced(h) ==
    {p \in Workers(h) : h.slot # Some(p) /\ \A t \in Tasks : h.held[t] # p}

\* drop of the clients no one refers to
Dropped(h) == [h EXCEPT !.killed = @ \cup Unreferenced(h)]

ManagerInit ==
    /\ profile = "manager"
    /\ chunker = NoChunker
    /\ embedder = NoEmbedder
    /\ ort = NoOrt
    /\ payload = NoPayload
    /\ loader = NoLoader
    /\ host = [state |-> "manager",
               slot |-> None,
               spawned |-> 0,
               killed |-> {},
               pc |-> [t \in Tasks |-> "idle"],
               held |-> [t \in Tasks |-> 0]]
    /\ NotStarted

\* RpcManager::shutdown_with, lib.rs:554-558: the client is taken out of the
\* slot and its child is killed while the slot is locked
shutdown_with(h) ==
    IF IsSome(h.slot)
    THEN [h EXCEPT !.slot = None, !.killed = @ \cup {Unwrap(h.slot)}]
    ELSE h

\* a command that starts with rpc_manager.ensure_client, lib.rs:780-911
CommandStart(t) ==
    /\ host.state = "manager"
    /\ host.pc[t] = "idle"
    /\ host' = [host EXCEPT !.pc[t] = "ensure"]
    /\ HostFrame

\* restart_backend, lib.rs:832-841: shutdown_with, then ensure_client
RestartBackend(t) ==
    /\ host.state = "manager"
    /\ host.pc[t] = "idle"
    /\ host' = [shutdown_with(host) EXCEPT !.pc[t] = "ensure"]
    /\ HostFrame

\* WindowEvent::CloseRequested, lib.rs:1699-1706
WindowClose ==
    /\ host.state = "manager"
    /\ IsSome(host.slot)
    /\ host' = shutdown_with(host)
    /\ HostFrame

\* as if ensure_client kept the slot locked from its check to its replace
EnsureCheck_locked(t) ==
    /\ host.state = "manager"
    /\ host.pc[t] = "ensure"
    /\ \A u \in Tasks : host.pc[u] \notin {"spawning", "storing"}
    /\ IF IsSome(host.slot)
       THEN host' = [host EXCEPT !.held[t] = Unwrap(host.slot), !.pc[t] = "using"]
       ELSE host' = [host EXCEPT !.pc[t] = "spawning"]
    /\ HostFrame

\* ensure_client, lib.rs:545-547: the slot is locked for the check only
EnsureCheck(t) ==
    /\ host.state = "manager"
    /\ host.pc[t] = "ensure"
    /\ IF IsSome(host.slot)
       THEN host' = [host EXCEPT !.held[t] = Unwrap(host.slot), !.pc[t] = "using"]
       ELSE host' = [host EXCEPT !.pc[t] = "spawning"]
    /\ HostFrame

\* ensure_client, lib.rs:549: spawn_rpc_worker(app).await?
SpawnWorker(t) ==
    /\ host.state = "manager"
    /\ host.pc[t] = "spawning"
    /\ \E ok \in BOOLEAN :
          IF ok /\ host.spawned < MaxSpawns
          THEN host' = [host EXCEPT !.spawned = @ + 1,
                                    !.held[t] = host.spawned + 1,
                                    !.pc[t] = "storing"]
          ELSE host' = [host EXCEPT !.pc[t] = "idle"]
    /\ HostFrame

\* ensure_client, lib.rs:550-551: the slot is locked again and replace puts
\* the new client in; the client it held is dropped
StoreClient(t) ==
    /\ host.state = "manager"
    /\ host.pc[t] = "storing"
    /\ host' = Dropped([host EXCEPT !.slot = Some(host.held[t]),
                                    !.pc[t] = "using"])
    /\ HostFrame

\* the command is over and drops the client ensure_client gave it
CommandReturn(t) ==
    /\ host.state = "manager"
    /\ host.pc[t] = "using"
    /\ host' = Dropped([host EXCEPT !.held[t] = 0, !.pc[t] = "idle"])
    /\ HostFrame

ManagerNext ==
    \/ \E t \in Tasks : CommandStart(t)
    \/ \E t \in Tasks : RestartBackend(t)
    \/ WindowClose
    \/ \E t \in Tasks : EnsureCheck(t)
    \/ \E t \in Tasks : SpawnWorker(t)
    \/ \E t \in Tasks : StoreClient(t)
    \/ \E t \in Tasks : CommandReturn(t)

ManagerSpec == ManagerInit /\ [][ManagerNext]_vars

(***************************************************************************)
(* Properties of the transport loop.                                       *)
(***************************************************************************)
CurLine == Unwrap(line)
CurResponse == Unwrap(response)
ErrorCode(r) == IF IsSome(r.error) THEN Unwrap(r.error).code ELSE 0
\* the id the request on line l carries, null when it carries none
RequestId(l) == IF l.id.t = "absent" THEN JNull ELSE l.id

Idle == pc \in {"start", "read", "done", "failed"}
Awaiting == pc \in {"pdf", "exists", "create", "upsert", "search"}

\* C1: for every sequence of input lines, run writes exactly one response
\* line per line read, the i-th response answers the i-th line, and response
\* i is written and flushed before line i+1 is read; a request without an id
\* still gets a response.
C1_OneResponsePerLineInOrder ==
    /\ \A i \in 1..Len(out) : out[i] = i
    /\ outbuf = <<>>
    /\ Idle => Len(out) = nread /\ ~IsSome(line)
    /\ ~Idle => Len(out) = nread - 1 /\ IsSome(line)
    /\ pc = "write" => IsSome(response)

\* the second line, a request without an id, has its response ready while
\* the first response is the only line on stdout
C1_Witness ==
    /\ pc = "write"
    /\ nread = 2
    /\ out = <<1>>
    /\ RequestParses(CurLine)
    /\ CurLine.id.t = "absent"
    /\ IsSome(CurResponse.result)

\* C2: at most one request is in flight: every activity a handler started
\* (the blocking PDF task, each vector-store call) has completed before the
\* response is written, and none overlaps the reading or handling of the
\* next line.
C2_SingleFlight ==
    /\ Cardinality(active) <= 1
    /\ active # {} => Awaiting
    /\ pc \in {"read", "handle", "write", "done", "failed"} => active = {}
    /\ IsSome(response) => active = {}

\* the response of a second request, an upload that went through the PDF
\* task, the embedding and the three vector-store calls
C2_Witness ==
    /\ pc = "write"
    /\ nread = 2
    /\ {"process_pdf", "embed", "collection_exists", "upsert_points"} \subseteq calls
    /\ IsSome(CurResponse.result)
    /\ active = {}

C4_IdEchoed ==
    pc = "write" =>
        /\ ErrorCode(CurResponse) # -32700 => CurResponse.id = RequestId(CurLine)
        /\ ErrorCode(CurResponse) = -32700 => CurResponse.id = JNull
        /\ CurLine.kind # "json" => CurResponse.id = JNull
        /\ CurLine.id.t \in {"absent", "null"} => CurResponse.id = JNull

\* a handler failure (-32603) answered with the request's non-null id
C4_Witness ==
    /\ pc = "write"
    /\ ErrorCode(CurResponse) = -32603
    /\ "collection_exists" \in calls
    /\ CurLine.id = JStr("a")
    /\ CurResponse.id = JStr("a")

\* C5: every response carries exactly one of `result` and `error`.
C5_ResultXorError ==
    IsSome(response) => (IsSome(CurResponse.result) # IsSome(CurResponse.error))

\* an error response built by dispatch for a request with bad params
C5_Witness ==
    /\ pc = "write"
    /\ ErrorCode(CurResponse) = -32602
    /\ ~IsSome(CurResponse.result)

\* C6: a line that is not well-formed JSON yields error -32700 with id
\* null, and no handler, embedding or vector-store call is made for it.
C6_ParseError ==
    (IsSome(line) /\ CurLine.kind = "not_json") =>
        /\ pc \in {"handle", "write"}
        /\ calls = {}
        /\ active = {}
        /\ pc = "write" =>
              /\ ErrorCode(CurResponse) = -32700
              /\ CurResponse.id = JNull
              /\ ~IsSome(CurResponse.result)

C6_Witness ==
    /\ pc = "write"
    /\ CurLine.kind = "not_json"
    /\ ErrorCode(CurResponse) = -32700
    /\ Len(points) > 0

\* C7: a parsed request whose `jsonrpc` is not "2.0" yields -32600 whatever
\* its method and params are, and no handler is invoked.
C7_InvalidVersion ==
    (IsSome(line) /\ RequestParses(CurLine) /\ CurLine.jsonrpc.s # "2.0") =>
        /\ pc \in {"handle", "write"}
        /\ calls = {}
        /\ pc = "write" => ErrorCode(CurResponse) = -32600

\* a valid upload request, but for its version "1.0"
C7_Witness ==
    /\ pc = "write"
    /\ CurLine.jsonrpc = JStr("1.0")
    /\ CurLine.method = JStr("upload_document")
    /\ UploadDocumentParamsOk(CurLine.params)
    /\ ErrorCode(CurResponse) = -32600

\* C8: a well-formed JSON request object whose `jsonrpc` member is missing
\* yields error -32600 (invalid request).
C8_MissingVersionIsInvalidRequest ==
    (pc = "write" /\ CurLine.kind = "json" /\ CurLine.top = "object"
        /\ CurLine.jsonrpc.t = "absent") =>
        ErrorCode(CurResponse) = -32600

KnownMethods == {"ping", "upload_document", "search_document"}

\* C9: a request with version "2.0" whose method is none of ping,
\* upload_document, search_document yields -32601 and triggers no embedding
\* or vector-store call.
C9_MethodNotFound ==
    (IsSome(line) /\ RequestParses(CurLine) /\ CurLine.jsonrpc.s = "2.0"
        /\ CurLine.method.s \notin KnownMethods) =>
        /\ pc \in {"handle", "write"}
        /\ calls = {}
        /\ pc = "write" => ErrorCode(CurResponse) = -32601

C9_Witness ==
    /\ pc = "write"
    /\ CurLine.jsonrpc = JStr("2.0")
    /\ CurLine.method = JStr("foo")
    /\ CurLine.params.form = "object"
    /\ ErrorCode(CurResponse) = -32601

\* the mismatches C10 names: params absent, a required member missing, a
\* member of the wrong type
IsType(v, types) == v.t \in types
UploadSchemaMismatch(p) ==
    \/ p.form \in {"absent", "null"}
    \/ /\ p.form = "object"
       /\ \/ p.file_path.t = "absent"
          \/ ~IsType(p.file_path, {"absent", "string"})
          \/ ~IsType(p.document_id, {"absent", "null", "string"})
SearchSchemaMismatch(p) ==
    \/ p.form \in {"absent", "null"}
    \/ /\ p.form = "object"
       /\ \/ p.query.t = "absent"
          \/ ~IsType(p.query, {"absent", "string"})
          \/ ~IsType(p.document_id, {"absent", "null", "string"})
          \/ ~IsType(p.limit, {"absent", "null", "int"})

\* C10: an upload_document or search_document request whose params do not
\* match the method's schema (params absent, required file_path / query
\* missing, or a member of the wrong type) yields -32602, and its handler is
\* never started.
C10_InvalidParams ==
    (/\ IsSome(line)
     /\ RequestParses(CurLine)
     /\ CurLine.jsonrpc.s = "2.0"
     /\ \/ CurLine.method.s = "upload_document" /\ UploadSchemaMismatch(CurLine.params)
        \/ CurLine.method.s = "search_document" /\ SearchSchemaMismatch(CurLine.params)) =>
        /\ pc \in {"handle", "write"}
        /\ calls = {}
        /\ active = {}
        /\ pc = "write" => ErrorCode(CurResponse) = -32602

\* an upload request that names a document but no file
C10_Witness ==
    /\ pc = "write"
    /\ CurLine.jsonrpc = JStr("2.0")
    /\ CurLine.method = JStr("upload_document")
    /\ CurLine.params.form = "object"
    /\ CurLine.params.document_id = JStr("doc-1")
    /\ CurLine.params.file_path.t = "absent"
    /\ ErrorCode(CurResponse) = -32602

\* the line in hand is a well-formed request for which dispatch calls a handler
HandlerCalled ==
    /\ IsSome(line)
    /\ RequestParses(CurLine)
    /\ dispatch(JsonRpcRequest(CurLine)).next \in {"upload_document", "search_document"}

\* a step in which a handler returns without its result: the upload handler
\* returns before the upsert, or from an upsert that stored nothing; the
\* search handler returns anything but results; a handler returns before
\* its first await
HandlerFails ==
    /\ pc' = "write"
    /\ \/ pc \in {"pdf", "exists", "create"}
       \/ pc = "upsert" /\ points' = points
       \/ pc = "search" /\ (~CollectionExists \/ ~IsSome(Unwrap(response').result))
       \/ pc = "handle" /\ HandlerCalled

\* C11: any failure inside a handler (missing file, empty extracted text,
\* embedding failure, collection check or create failure, upsert failure,
\* search failure) yields exactly one response, which has error code -32603
\* and carries the request's id: no response for the line existed before the
\* handler returned, nothing is written by the handler itself, and the
\* response handed to the writer is that error.
C11_HandlerFailureIsInternalError ==
    [][HandlerFails =>
          /\ ~IsSome(response)
          /\ out' = out /\ outbuf' = outbuf
          /\ Len(out) = nread - 1
          /\ IsSome(response')
          /\ ~IsSome(Unwrap(response').result)
          /\ ErrorCode(Unwrap(response')) = -32603
          /\ Unwrap(response').id = RequestId(CurLine)]_vars

\* the index refused the batch of an upload with id 1
C11_Witness ==
    /\ pc = "write"
    /\ CurLine.method = JStr("upload_document")
    /\ CurLine.id = JInt(1)
    /\ "upsert_points" \in calls
    /\ ErrorCode(CurResponse) = -32603
    /\ Unwrap(CurResponse.error).message = "upsert_points failed"
    /\ CurResponse.id = JInt(1)

\* C12: the transport loop terminates when end-of-input is read.  For the
\* finite input, provided each handler and each vector-store call returns,
\* run eventually returns; it returns successfully only from the read of
\* end-of-input, when every line read has been answered, and neither that
\* step nor any later one writes anything.
C12_TerminatesAtEndOfInput ==
    /\ <>(pc \in {"done", "failed"})
    /\ [](pc = "done" => Len(out) = nread /\ outbuf = <<>> /\ ~IsSome(response))
    /\ [][pc' = "done" => pc = "read" /\ out' = out /\ outbuf' = outbuf]_vars
    /\ [][pc # "done"]_vars

\* run returned after two lines, both answered in order
C12_Witness ==
    /\ pc = "done"
    /\ nread = 2
    /\ out = <<1, 2>>

\* C13: if loading the model / tokenizer assets fails at startup the loop
\* never starts (no input line is read, no response line is written, the
\* process ends in failure); conversely every failure after the loop started
\* is request-scoped, so the process ends in failure from startup only.
C13_OnlyStartupFailureIsFatal ==
    /\ [][pc = "start" /\ pc' = "failed" =>
             nread' = 0 /\ ~IsSome(line') /\ out' = <<>> /\ outbuf' = <<>>]_vars
    /\ [][pc = "failed" => UNCHANGED <<nread, line, out, outbuf>>]_vars
    /\ [][pc' = "failed" => pc = "start"]_vars

\* the line in hand is a search_document request that dispatch accepts and
\* whose query is the empty string
EmptyQueryRequest ==
    /\ IsSome(line)
    /\ RequestParses(CurLine)
    /\ dispatch(JsonRpcRequest(CurLine)).next = "search_document"
    /\ Unwrap(dispatch(JsonRpcRequest(CurLine)).args).query = ""

\* C14: a search_document request with an empty query string yields an error
\* response and makes no vector-store call and no embedding call: while the
\* request is in hand no collaborator has been called and nothing is awaited,
\* and the response handed to the writer is an error without a result.
C14_EmptyQueryIsRejected ==
    EmptyQueryRequest =>
        /\ pc \in {"handle", "write"}
        /\ calls = {}
        /\ active = {}
        /\ pc = "write" =>
              /\ IsSome(CurResponse.error)
              /\ ~IsSome(CurResponse.result)
              /\ CurResponse.id = RequestId(CurLine)

\* an empty query restricted to doc-1, answered while the collection exists
C14_Witness ==
    /\ pc = "write"
    /\ EmptyQueryRequest
    /\ CurLine.params.document_id = JStr("doc-1")
    /\ CollectionExists
    /\ Unwrap(CurResponse.error).message = "query text cannot be empty"

\* the line in hand is a search_document request that was answered with results
SearchAnswered ==
    /\ pc = "write"
    /\ CurLine.method = JStr("search_document")
    /\ IsSome(CurResponse.result)

\* the document_id and the limit of the search request in hand
SearchArgs == Unwrap(dispatch(JsonRpcRequest(CurLine)).args)
SearchLimit == unwrap_or(SearchArgs.limit, 5)
Results == Unwrap(CurResponse.result).results

StoredPayloads == {points[i].payload : i \in 1..Len(points)}
StoredOf(d) == {i \in 1..Len(points) : points[i].payload.document_id = d}

\* C15: after any sequence of uploads, a search_document request with
\* document_id = d returns only payloads of stored points whose document_id
\* equals d, as many as the limit allows; without document_id no filter is
\* applied and the points of every document are eligible: the results are
\* payloads of stored points, as many as the limit allows out of all of them.
C15_SearchHonoursDocumentFilter ==
    SearchAnswered =>
        /\ \A i \in 1..Len(Results) : Results[i] \in StoredPayloads
        /\ IF IsSome(SearchArgs.document_id)
           THEN /\ \A i \in 1..Len(Results) :
                      Results[i].document_id = Unwrap(SearchArgs.document_id)
                /\ Len(Results) =
                      Min(SearchLimit,
                          Cardinality(StoredOf(Unwrap(SearchArgs.document_id))))
           ELSE /\ Len(Results) = Min(SearchLimit, Len(points))
                /\ Len(points) <= SearchLimit =>
                      \A p \in StoredPayloads :
                          \E i \in 1..Len(Results) : Results[i] = p

\* a search restricted to doc-1 over an index that also holds a point of
\* doc-2 returns the chunk of doc-1
C15_Witness ==
    /\ SearchAnswered
    /\ SearchArgs.document_id = Some("doc-1")
    /\ StoredOf("doc-2") # {}
    /\ StoredOf("doc-1") # {}
    /\ Len(Results) = 1
    /\ Results[1].document_id = "doc-1"

\* the line in hand is an upload_document request that was answered with a
\* result
UploadAnswered ==
    /\ pc = "write"
    /\ CurLine.method = JStr("upload_document")
    /\ IsSome(CurResponse.result)

Uploaded == Unwrap(CurResponse.result)
UploadArgs == Unwrap(dispatch(JsonRpcRequest(CurLine)).args)

\* t is raw without the whitespace at its two ends
IsTrimOf(t, raw) ==
    \E i \in 1..(Len(raw) + 1) :
        LET j == i + Len(t) - 1
        IN  /\ j <= Len(raw)
            /\ \A k \in 1..(i - 1) : IsWhitespace(raw[k])
            /\ \A k \in (j + 1)..Len(raw) : IsWhitespace(raw[k])
            /\ t = SubSeq(raw, i, j)
            /\ i <= j => ~IsWhitespace(raw[i]) /\ ~IsWhitespace(raw[j])

\* the points stored before the upload in hand added its own
StoredBefore == SubSeq(points, 1, Len(points) - Uploaded.chunk_count)

\* C16: a successful upload_document returns status "processed",
\* extracted_text equal to the trimmed extracted text, chunk_count equal to
\* the number of chunks the chunker produces for that text, and document_id
\* equal to the supplied id, or to a freshly generated id (one that no stored
\* point carried before) when it is omitted; the text "hello lexai" gives
\* chunk_count 1.
C16_UploadResult ==
    UploadAnswered =>
        /\ Uploaded.status = "processed"
        /\ \E raw \in TextsOf(profile) : IsTrimOf(Uploaded.extracted_text, raw)
        /\ Uploaded.chunk_count = Len(split_into_chunks(Uploaded.extracted_text))
        /\ Uploaded.extracted_text = HelloLexai => Uploaded.chunk_count = 1
        /\ IF IsSome(UploadArgs.document_id)
           THEN Uploaded.document_id = Unwrap(UploadArgs.document_id)
           ELSE /\ Uploaded.document_id \notin {"doc-1", "doc-2"}
                /\ \A i \in 1..Len(StoredBefore) :
                      StoredBefore[i].payload.document_id # Uploaded.document_id
        /\ CurResponse.id = RequestId(CurLine)

\* the upload of " hello lexai\n" without a document_id
C16_Witness ==
    /\ UploadAnswered
    /\ ~IsSome(UploadArgs.document_id)
    /\ Uploaded.extracted_text = HelloLexai
    /\ Uploaded.chunk_count = 1
    /\ Uploaded.document_id = Uuid(1)

\* a step in which an upload_document handler returns its result
UploadSucceeds ==
    /\ pc = "upsert"
    /\ pc' = "write"
    /\ IsSome(Unwrap(response').result)

PointIds(stored) == {stored[i].id : i \in 1..Len(stored)}

\* C17: each successful upload_document adds exactly chunk_count new points
\* to the index, the i-th with payload {document_id of the request,
\* chunk_text = i-th chunk} and the i-th embedding, each under a fresh id; no
\* request modifies or removes a stored point, so the index only grows at its
\* end (re-uploading a document_id adds points, it does not replace them).
C17_UploadAddsPoints ==
    [][/\ Len(points') >= Len(points)
       /\ SubSeq(points', 1, Len(points)) = points
       /\ UploadSucceeds =>
             LET r == Unwrap(Unwrap(response').result)
                 chunks == split_into_chunks(r.extracted_text)
                 added == SubSeq(points', Len(points) + 1, Len(points'))
             IN  /\ Len(added) = r.chunk_count
                 /\ \A i \in 1..Len(added) :
                       /\ added[i].payload =
                             [document_id |-> r.document_id, chunk_text |-> chunks[i]]
                       /\ added[i].vectors = embed(chunks)[i]
                       /\ added[i].id \notin PointIds(points)
                       /\ \A j \in 1..Len(added) : added[i].id = added[j].id => i = j]_vars

\* doc-2 is uploaded again, with a text of two chunks: the point it already
\* had is still the first of the index
C17_Witness ==
    /\ pc = "write"
    /\ CurLine.method = JStr("upload_document")
    /\ IsSome(CurResponse.result)
    /\ Unwrap(CurResponse.result).document_id = "doc-2"
    /\ Unwrap(CurResponse.result).chunk_count = 2
    /\ Len(points) = 3
    /\ points[1] = OldPoint
    /\ points[3].payload.chunk_text = SubSeq(LongText, 801, 1001)

\* the last n stored points
LastPoints(n) == SubSeq(points, Len(points) - n + 1, Len(points))

\* C18: when the success response of upload_document is about to be written,
\* all of that request's points have been written in one batch and
\* acknowledged by the index (nothing is awaited any more and the index ends
\* with one point per chunk of the request), so every later request finds
\* them; the index changes only by one whole batch when an upsert returns;
\* and within one upload the upsert is issued only after
\* ensure_collection succeeded (the existence check has returned, no create
\* is pending, the collection exists).
C18_UpsertAcknowledgedBeforeSuccess ==
    /\ [](UploadAnswered =>
             /\ active = {}
             /\ "upsert_points" \in calls
             /\ Uploaded.chunk_count >= 1
             /\ Len(points) >= Uploaded.chunk_count
             /\ LET chunks == split_into_chunks(Uploaded.extracted_text)
                    last == LastPoints(Uploaded.chunk_count)
                IN  \A i \in 1..Len(last) :
                       last[i].payload =
                          QdrantDocumentPayload(Uploaded.document_id, chunks[i]))
    /\ [](pc = "upsert" =>
             /\ CollectionExists
             /\ "collection_exists" \in calls
             /\ active = {"upsert_points"})
    /\ [][points' # points =>
             /\ pc = "upsert"
             /\ batch # <<>>
             /\ points' = points \o batch]_vars

\* the first upload into an empty index: the collection was created, then
\* both chunks were stored, then the result was returned
C18_Witness ==
    /\ UploadAnswered
    /\ calls = {"process_pdf", "extract_text", "split_into_chunks", "embed",
                "collection_exists", "create_collection", "upsert_points"}
    /\ Uploaded.chunk_count = 2
    /\ Len(points) = 2
    /\ points[1].payload.document_id = Uploaded.document_id

\* C19: ensure_collection is idempotent.  It issues a create (dimension 384,
\* cosine) only when the existence check reports the collection absent; the
\* collection comes into being at most once and is never replaced or
\* removed, so after any number of calls exactly one collection exists once
\* a call has succeeded; and no call touches the stored points.
C19_EnsureCollectionIdempotent ==
    /\ [](pc = "create" => ~CollectionExists)
    /\ [](pc = "upsert" =>
             collection = Some([name |-> "lexai_documents", size |-> 384,
                                distance |-> "Cosine"]))
    /\ [][("create_collection" \in calls' /\ "create_collection" \notin calls) =>
             pc = "exists" /\ ~CollectionExists]_vars
    /\ [][collection' # collection =>
             /\ pc = "create"
             /\ ~CollectionExists
             /\ collection' = Some([name |-> "lexai_documents", size |-> 384,
                                    distance |-> "Cosine"])]_vars
    /\ [][(pc = "exists" \/ pc = "create") => points' = points]_vars

\* the second upload of a run: ensure_collection found the collection of the
\* first and created nothing, and the points of the first are in place
C19_Witness ==
    /\ pc = "upsert"
    /\ nread = 2
    /\ calls = {"process_pdf", "extract_text", "split_into_chunks", "embed",
                "collection_exists", "upsert_points"}
    /\ Len(points) >= 1
    /\ points[1] # OldPoint

\* C20: for any non-empty text of at most W characters (W the window size,
\* counted in code points), whitespace-only text included, split_into_chunks
\* returns exactly one chunk, equal to the input.
C20_ShortTextIsOneChunk ==
    (/\ chunker.state = "done"
     /\ Len(chunker.text) >= 1
     /\ Len(chunker.text) <= chunker.size) =>
        chunker.results = <<chunker.text>>

\* a text of blanks that fills the window of the build exactly
C20_Witness ==
    /\ chunker.state = "done"
    /\ chunker.size = 1000
    /\ Len(chunker.text) = 1000
    /\ \A i \in 1..Len(chunker.text) : chunker.text[i] = " "
    /\ chunker.results = <<chunker.text>>

\* ceil(a / b) for a >= 0, b >= 1
CeilDiv(a, b) == (a + b - 1) \div b

\* C21: for any text of length L > W with overlap O < W, split_into_chunks
\* returns exactly ceil((L - W) / (W - O)) + 1 chunks.
C21_ChunkCount ==
    (/\ chunker.state = "done"
     /\ Len(chunker.text) > chunker.size
     /\ chunker.overlap < chunker.size) =>
        Len(chunker.results) =
            CeilDiv(Len(chunker.text) - chunker.size,
                    chunker.size - chunker.overlap) + 1

\* 2500 characters under the window of the build give three chunks
C21_Witness ==
    /\ chunker.state = "done"
    /\ chunker.size = 1000
    /\ chunker.overlap = 200
    /\ Len(chunker.text) = 2500
    /\ Len(chunker.results) = 3

\* where the i-th chunk starts (0-based) and ends when the overlap is less
\* than the window
ChunkStart(i) == (i - 1) * (chunker.size - chunker.overlap)
ChunkEnd(i) == Min(ChunkStart(i) + chunker.size, Len(chunker.text))
Suffix(s, k) == SubSeq(s, Len(s) - k + 1, Len(s))
Prefix(s, k) == SubSeq(s, 1, k)

\* C22: for every pair of consecutive chunks returned by split_into_chunks
\* (overlap O less than the window, as in the build), the last k characters
\* of the first equal the first k characters of the second, where
\* k = min(O, len(first), len(second)), and these are the same positions of
\* the text: each chunk is the slice of the text at its window, and the
\* second window starts k characters before the end of the first.
C22_OverlapPreserved ==
    (chunker.state = "done" /\ chunker.overlap < chunker.size) =>
        /\ \A i \in 1..Len(chunker.results) :
              chunker.results[i] =
                  SubSeq(chunker.text, ChunkStart(i) + 1, ChunkEnd(i))
        /\ \A i \in 1..(Len(chunker.results) - 1) :
              LET first == chunker.results[i]
                  second == chunker.results[i + 1]
                  k == Min(Min(chunker.overlap, Len(first)), Len(second))
              IN  /\ Suffix(first, k) = Prefix(second, k)
                  /\ ChunkStart(i + 1) = ChunkEnd(i) - k

\* the text of 1000 x, 800 y and 800 z: the second chunk begins with the 200
\* x that end the first
C22_Witness ==
    /\ chunker.state = "done"
    /\ chunker.size = 1000
    /\ chunker.overlap = 200
    /\ Len(chunker.text) = 2600
    /\ Len(chunker.results) = 3
    /\ Prefix(chunker.results[2], 200) = [i \in 1..200 |-> "x"]
    /\ chunker.results[2][201] = "y"

AllWhitespace(t) == \A i \in 1..Len(t) : IsWhitespace(t[i])

\* C23: chunking the empty text yields no chunks, and the ingestion path
\* rejects extracted text that is empty after trimming with an error before
\* the chunker, the embedder or the vector store is invoked; whenever
\* processing succeeds, `chunks` is non-empty.
C23_EmptyTextIsRejected ==
    /\ split_into_chunks(<<>>) = <<>>
    /\ (IsSome(raw_text) /\ AllWhitespace(Unwrap(raw_text))) =>
          /\ pc = "write"
          /\ IsSome(CurResponse.error)
          /\ ~IsSome(CurResponse.result)
          /\ calls \cap {"split_into_chunks", "embed", "collection_exists",
                         "create_collection", "upsert_points", "search_points"} = {}
          /\ active = {}
    /\ pc \in {"exists", "create", "upsert"} =>
          /\ processed.ok
          /\ Len(processed.chunks) >= 1
          /\ "split_into_chunks" \in calls
    /\ UploadAnswered => Uploaded.chunk_count >= 1

\* the file holds one blank: the upload fails on the empty text
C23_Witness ==
    /\ pc = "write"
    /\ raw_text = Some(<<" ">>)
    /\ calls = {"process_pdf", "extract_text"}
    /\ ErrorCode(CurResponse) = -32603
    /\ Unwrap(CurResponse.error).message = "extracted text is empty"

\* C24: split_into_chunks terminates for every input and every pair of
\* constants W >= 1, O >= 0: the call returns, with the chunks the function
\* is defined to return; the window start strictly increases on every
\* iteration that is followed by another; and when O >= W the start advances
\* by the full window.
C24_ChunkerTerminates ==
    /\ <>(chunker.state = "done")
    /\ [](chunker.state = "done" =>
             chunker.results =
                 split_with(chunker.text, chunker.size, chunker.overlap))
    /\ [][(chunker.state = "loop" /\ chunker'.state = "loop") =>
             /\ chunker'.start > chunker.start
             /\ chunker'.start < Len(chunker.text)
             /\ chunker.overlap >= chunker.size =>
                   chunker'.start = chunker.start + chunker.size]_vars

\* five characters under window 1 and overlap 4: five iterations, no overlap
C24_Witness ==
    /\ chunker.state = "done"
    /\ chunker.size = 1
    /\ chunker.overlap = 4
    /\ Len(chunker.text) = 5
    /\ chunker.start = 4
    /\ Len(chunker.results) = 5

(***************************************************************************)
(* Properties of the embedding service and of the tokenizer.               *)
(***************************************************************************)
EmbedOk == embedder.state = "done" /\ embedder.result.ok
Embedded == embedder.result.vectors

\* what embed returns for the i-th text of the batch when it is alone
EmbeddedAlone(i) ==
    EmbeddingService_embed(embedder.tokenizer, embedder.model,
                           <<embedder.texts[i]>>)

\* C25: embed returns exactly one vector per input text, in input order: the
\* result is as long as the batch, and the i-th vector is computed from the
\* i-th text only, so it is the vector the same service returns for that
\* text alone.
C25_OneVectorPerText ==
    EmbedOk =>
        /\ Len(Embedded) = Len(embedder.texts)
        /\ \A i \in 1..Len(embedder.texts) :
              /\ EmbeddedAlone(i).ok
              /\ Embedded[i] = EmbeddedAlone(i).vectors[1]

\* the vectors mean_pool returns for the batch when the model is `model`
PooledBy(model) ==
    LET encoded == encode(embedder.tokenizer, embedder.texts)
        outputs == session_run(model, encoded)
        array == [r \in 1..(encoded.batch_len * encoded.sequence_length) |->
                     Row(outputs.data, r - 1, model.hidden)]
    IN  mean_pool(encoded.batch_len, encoded.sequence_length, model.hidden, array,
                  encoded.attention_mask)

\* the same model with other values at the padded positions
WithNoise(noise) == Model(embedder.model.kind, embedder.model.weight, noise)

\* C26: masked mean pooling ignores masked-out positions: two token-level
\* outputs with the same attention mask that differ only where the mask is 0
\* give the same vectors, from mean_pool and hence from embed, in every row.
C26_MaskedPositionsIgnored ==
    EmbedOk /\ embedder.model.kind = "token_level" =>
        \A noise \in {0, 1} :
            /\ PooledBy(WithNoise(noise)) = PooledBy(embedder.model)
            /\ EmbeddingService_embed(embedder.tokenizer, WithNoise(noise),
                                      embedder.texts) = embedder.result

\* a batch with padded positions was embedded by a token-level model whose
\* output there is not zero
C26_Witness ==
    /\ EmbedOk
    /\ embedder.model = Model("token_level", 1, 1)
    /\ Len(embedder.texts) = 2
    /\ \E j \in 1..Len(embedder.batch.attention_mask) :
          embedder.batch.attention_mask[j] = 0
    /\ session_run(WithNoise(0), embedder.batch).data
          # session_run(embedder.model, embedder.batch).data

\* |dir / sqrt(norm2)| = 1
HasUnitNorm(v) == v.norm2 > 0 /\ SumOfSquares(v.dir) = v.norm2
IsZeroVector(v) == \A k \in 1..Len(v.dir) : v.dir[k] = 0

\* the vectors mean_pool handed to normalize in the call that was made
PooledVectors ==
    LET outputs == session_run(embedder.model, embedder.batch)
        shape == outputs.shape
        seq_len == IF Len(shape) = 3 THEN shape[2] ELSE 1
        hidden == shape[Len(shape)]
        array == [r \in 1..(shape[1] * seq_len) |-> Row(outputs.data, r - 1, hidden)]
    IN  mean_pool(shape[1], seq_len, hidden, array, embedder.batch.attention_mask)

Encoded == embedder.batch
PadTokenKnown ==
    IsSome(token_to_id(embedder.tokenizer.vocab, embedder.tokenizer.config.pad_token))

\* the number of real tokens of row i (0-based) of the encoded batch
RealTokens(i) == Sum(Row(Encoded.attention_mask, i, Encoded.sequence_length))

Services == {s \in 1..MaxServices : ort.pc[s] = "done"}

\* C28: across any number of EmbeddingService constructions in one process,
\* concurrent ones included, the runtime environment is successfully
\* initialized at most once, every construction that got an environment, and
\* so every service, uses that one, and no later construction builds another.
C28_EnvironmentInitializedOnce ==
    /\ ort.built <= 1
    /\ IsSome(ort.cell) <=> ort.built = 1
    /\ \A s \in 1..MaxServices :
          /\ ort.pc[s] \in {"session", "done"} =>
                IsSome(ort.env[s]) /\ ort.env[s] = ort.cell
          /\ s \in Services => \A r \in Services : ort.env[r] = ort.env[s]

\* a first initializer failed, a concurrent caller then initialized the
\* environment, and a later construction found it: two services share it
C28_Witness ==
    /\ ort.pc[1] = "failed"
    /\ ort.pc[2] = "done"
    /\ ort.pc[3] = "done"
    /\ ort.env[1] = None
    /\ ort.built = 1

\* C29: payload conversion round-trips: every JSON value built from null,
\* bool, integer, float, string, array and object is converted to the
\* index's representation and back to the same value, integers staying
\* integers and floats staying floats, and no two such values have the same
\* representation.
C29_PayloadRoundTrip ==
    payload.state = "done" =>
        /\ payload.forward.ok
        /\ payload.back.ok
        /\ payload.back.value = payload.value
        /\ \A other \in JsonValues :
              json_to_qdrant_value(other) = payload.forward => other = payload.value

\* the first output of the model for the batch that was encoded
Outputs == session_run(embedder.model, embedder.batch)

\* the mean of the output rows of batch row b (1-based) at the positions its
\* own mask entries select, as [sum, denom]
OwnMaskPooled(b, seq_len) ==
    LET s == embedder.batch.sequence_length
        own == {t \in 1..seq_len : embedder.batch.attention_mask[(b - 1) * s + t] # 0}
        hidden == embedder.model.hidden
        row(t) == Row(Outputs.data, (b - 1) * seq_len + t - 1, hidden)
    IN  [sum |-> [k \in 1..hidden |->
                     Sum([t \in 1..seq_len |-> IF t \in own THEN row(t)[k] ELSE 0])],
         denom |-> IF own = {} THEN 1 ELSE Cardinality(own)]

\* C34: for every batch row b pooling uses that row's own attention-mask
\* entries; when the model output is already pooled, shape (batch, hidden)
\* treated as seq = 1, the vector returned for row b is the L2-normalized
\* output row b, for every b; and an output whose rank is neither 2 nor 3 is
\* an error.
C34_PoolingUsesOwnMask ==
    embedder.state = "done" /\ embedder.batch.ok =>
        /\ embedder.model.kind = "other_rank" => ~embedder.result.ok
        /\ embedder.model.kind \in {"token_level", "pooled"} =>
              /\ embedder.result.ok
              /\ \A b \in 1..Len(embedder.texts) :
                    /\ embedder.model.kind = "token_level" =>
                          <<Embedded[b]>> =
                              normalize(<<OwnMaskPooled(b, embedder.batch.sequence_length)>>)
                    /\ embedder.model.kind = "pooled" =>
                          <<Embedded[b]>> =
                              normalize(<<[sum |-> Row(Outputs.data, b - 1,
                                                       embedder.model.hidden),
                                           denom |-> 1]>>)

\* the mask entries and the output rows of batch row b (1-based)
RowMask(b) == SubSeq(embedder.attention, (b - 1) * embedder.seq_len + 1,
                     b * embedder.seq_len)
RowEmbeddings(b) == SubSeq(embedder.embeddings, (b - 1) * embedder.seq_len + 1,
                           b * embedder.seq_len)
FullyMasked(b) == \A t \in 1..embedder.seq_len : RowMask(b)[t] = 0

\* C35: a batch row with no unmasked position causes no error and no
\* division by zero: mean_pool divides by 1 and yields the all-zero vector
\* for that row, normalize leaves it all-zero, and every other row is what
\* it would be in a batch of its own.
C35_FullyMaskedRowIsZero ==
    embedder.state = "done" =>
        /\ Len(embedder.vectors) = embedder.batch_len
        /\ \A b \in 1..embedder.batch_len :
              IF FullyMasked(b)
              THEN /\ embedder.pooled[b] = [sum |-> <<0, 0>>, denom |-> 1]
                   /\ embedder.vectors[b] = [dir |-> <<0, 0>>, norm2 |-> 0]
              ELSE /\ embedder.pooled[b].denom = Sum(RowMask(b))
                   /\ <<embedder.vectors[b]>> =
                          normalize(mean_pool(1, embedder.seq_len, 2,
                                              RowEmbeddings(b), RowMask(b)))

\* a batch of two rows was pooled whose first row has no unmasked position
\* and whose second row has two and a vector of norm 1
C35_Witness ==
    /\ embedder.state = "done"
    /\ embedder.batch_len = 2
    /\ embedder.seq_len = 2
    /\ embedder.attention = <<0, 0, 1, 1>>
    /\ embedder.embeddings[1] = <<3, 4>>
    /\ embedder.vectors[1].norm2 = 0
    /\ embedder.vectors[2].norm2 > 0

\* where chunk i starts in the text (0-based), counted from the chunks
\* themselves: chunk 1 at 0, each later one O before the end of the one before
RECURSIVE StartOf(_)
StartOf(i) ==
    IF i = 1 THEN 0
    ELSE StartOf(i - 1) + Len(chunker.results[i - 1]) - chunker.overlap

\* the first chunk followed by every later chunk without its first O characters
RECURSIVE Reassembled(_)
Reassembled(n) ==
    IF n = 0 THEN <<>>
    ELSE IF n = 1 THEN chunker.results[1]
    ELSE Reassembled(n - 1)
             \o SubSeq(chunker.results[n], chunker.overlap + 1, Len(chunker.results[n]))

\* C37: the chunks cover the text without loss (overlap O less than the
\* window W, as in the build): the first chunk starts at position 0, every
\* later chunk starts exactly O positions before the end of its predecessor,
\* every chunk but the last has exactly W characters, the last has between 1
\* and W characters and ends exactly at the text length, and the first chunk
\* followed by each later chunk minus its first O characters is the text.
C37_ChunksCoverText ==
    (chunker.state = "done" /\ chunker.overlap < chunker.size) =>
        LET n == Len(chunker.results)
        IN  /\ n = 0 <=> Len(chunker.text) = 0
            /\ \A i \in 1..n :
                  /\ chunker.results[i] =
                         SubSeq(chunker.text, StartOf(i) + 1,
                                StartOf(i) + Len(chunker.results[i]))
                  /\ i < n => Len(chunker.results[i]) = chunker.size
            /\ n > 0 =>
                  /\ Len(chunker.results[n]) \in 1..chunker.size
                  /\ StartOf(n) + Len(chunker.results[n]) = Len(chunker.text)
            /\ Reassembled(n) = chunker.text

\* 2500 characters under the window of the build: the third chunk is the
\* short tail of 900 characters that starts at 1600
C37_Witness ==
    /\ chunker.state = "done"
    /\ chunker.size = CHUNK_SIZE
    /\ chunker.overlap = CHUNK_OVERLAP
    /\ chunker.text = LongA
    /\ Len(chunker.results) = 3
    /\ StartOf(3) = 1600
    /\ Len(chunker.results[3]) = 900

\* the points the index holds that the filter of the search in hand admits
SearchEligible ==
    IF IsSome(SearchArgs.document_id)
    THEN StoredOf(Unwrap(SearchArgs.document_id))
    ELSE 1..Len(points)

\* C33: search_document asks the index for `limit` results, 5 when `limit`
\* is omitted, and returns exactly one entry per point the index returned, in
\* the index's order: entry i is the payload of the i-th point of the
\* response; hence at most `limit` entries, and that many when the index
\* holds as many eligible points.
C33_SearchReturnsIndexResponse ==
    SearchAnswered =>
        /\ SearchLimit = (IF IsSome(SearchArgs.limit) THEN Unwrap(SearchArgs.limit) ELSE 5)
        /\ Len(hits) = Min(SearchLimit, Cardinality(SearchEligible))
        /\ \A i, j \in 1..Len(hits) : hits[i] = hits[j] => i = j
        /\ \A i \in 1..Len(hits) : \E k \in SearchEligible : hits[i] = points[k]
        /\ Len(Results) = Len(hits)
        /\ \A i \in 1..Len(Results) :
              /\ Results[i].document_id = hits[i].payload.document_id
              /\ Results[i].chunk_text = hits[i].payload.chunk_text
        /\ Len(Results) <= SearchLimit

\* a search without limit and filter over an index of seven points is
\* answered with five entries, the newest point first
C33_Witness ==
    /\ SearchAnswered
    /\ ~IsSome(SearchArgs.limit)
    /\ ~IsSome(SearchArgs.document_id)
    /\ Len(points) = 7
    /\ Len(Results) = 5
    /\ hits[1] = points[7]
    /\ Results[1].chunk_text = HelloLexai

(***************************************************************************)
(* C36: the worker keeps no state between requests other than the index:   *)
(* the stored points change only in the step that answers an               *)
(* upload_document with its result, so ping, search_document, every        *)
(* request answered with an error and every upload that fails leave them   *)
(* as they were; and when the worker is back at reading a line, every      *)
(* variable a handler uses holds its initial value, so the response to a   *)
(* request depends only on the request and the contents of the index.      *)
(***************************************************************************)
NoRequestState ==
    /\ line = None
    /\ response = None
    /\ id = JNull
    /\ args = NoArgs
    /\ processed = NoDocument
    /\ vectors = <<>>
    /\ batch = <<>>
    /\ raw_text = None
    /\ hits = <<>>
    /\ outbuf = <<>>
    /\ active = {}
    /\ calls = {}

PointsChangeOnlyWithUploadResult ==
    points' # points =>
        /\ pc = "upsert"
        /\ response' # None
        /\ Unwrap(response').error = None

C36_IndexIsTheOnlyState ==
    [][/\ PointsChangeOnlyWithUploadResult
       /\ (pc' = "read" => NoRequestState')]_vars

\* the worker is idle between two requests and no request state is left
C36_NoSessionState == [][pc' = "read" => NoRequestState']_vars

(***************************************************************************)
(* Properties of the construction of the tokenizer service.                *)
(***************************************************************************)
Constructed == loader.state \in {"constructed", "encoded"}

\* C31: if the vocabulary of the tokenizer lacks the configured pad token,
\* TokenizerService::new fails: a service that was constructed finds the id
\* of its pad token in its vocabulary, and none of its encodes fails because
\* the pad token is missing.
C31_ConstructionFailsWithoutPadToken ==
    /\ Constructed =>
          IsSome(token_to_id(loader.created.service.vocab,
                             loader.created.service.config.pad_token))
    /\ loader.state = "encoded" =>
          loader.encoded # EncodeErr("pad token missing from tokenizer")

\* the sequence length and the pad token the configuration file asks for
ConfiguredLength(file) == unwrap_or(file.model_max_length, DEFAULT_MAX_LENGTH)
ConfiguredPadToken(file) == unwrap_or(file.padToken, default_pad_token)

\* C32: the sequence length used for padding and truncation is the
\* model_max_length field of the configuration object when it is present
\* and 512 when it is absent, and the pad token is the pad-token field of
\* the object when it is present and "<pad>" otherwise.
C32_ConfiguredLengthAndPadToken ==
    /\ Constructed =>
          /\ unwrap_or(loader.created.service.config.model_max_length,
                       DEFAULT_MAX_LENGTH) = ConfiguredLength(loader.assets.config)
          /\ loader.created.service.config.pad_token =
                ConfiguredPadToken(loader.assets.config)
    /\ (loader.state = "encoded" /\ loader.encoded.ok) =>
          /\ loader.encoded.sequence_length =
                ConfiguredLength(loader.assets.config)
          /\ Len(loader.encoded.input_ids) =
                Len(loader.texts) * ConfiguredLength(loader.assets.config)

\* the pad token is the one the object gives under the key the code reads
C32_PadTokenAsRead ==
    Constructed =>
        loader.created.service.config.pad_token =
            ConfiguredPadToken(loader.assets.config)

(***************************************************************************)
(* Properties of the host application.                                     *)
(***************************************************************************)
\* C40: after any sequence of review results applied to a term that starts
\* at stage 0 its review_stage is within 0..5: a known result raises the
\* stage by one up to 5, a not known result lowers it by one but never below
\* 0, and a result for a missing term is an error that changes nothing.
C40_ReviewStageWithinRange ==
    /\ [](host.state = "review" =>
             \A t \in DOMAIN host.terms : host.terms[t] \in 0..MAX_STAGE)
    /\ [][host.state = "review" =>
             LET t == host'.last.id
             IN  IF t \in DOMAIN host.terms
                 THEN /\ host'.last.ok
                      /\ host'.terms[t] =
                            IF host'.last.known
                            THEN Min(host.terms[t] + 1, MAX_STAGE)
                            ELSE Max(host.terms[t] - 1, 0)
                 ELSE /\ ~host'.last.ok
                      /\ host'.terms = host.terms]_vars

\* C38: the value RpcClient::call returns for a request is the worker's
\* response to that same request: under any interleaving of concurrent
\* calls, and after any earlier call that timed out, the line a call
\* returns from carries the id of the request that call wrote.
C38_CallReturnsOwnResponse ==
    host.state = "client" =>
        \A t \in Tasks :
            host.returned[t].kind = "ok" =>
                host.returned[t].id = host.request_id[t]

\* the worker processes that were spawned and not killed
Live == Workers(host) \ host.killed

\* C39: at most one worker process is live and tracked at any time: under
\* any interleaving of ensure_client, restart_backend and shutdown, every
\* worker that was spawned is the one in the manager's slot or has been
\* killed (or is in the hands of the ensure_client that spawned it and is
\* about to store it), and an ensure_client that finds a worker in the slot
\* spawns none.
C39_AtMostOneWorker ==
    /\ [](host.state = "manager" =>
             /\ Cardinality(Live) <= 1
             /\ \A p \in Live :
                   \/ host.slot = Some(p)
                   \/ \E t \in Tasks : host.pc[t] = "storing" /\ host.held[t] = p)
    /\ [][host.state = "manager" =>
             \A t \in Tasks :
                 (host.pc[t] = "ensure" /\ IsSome(host.slot)) =>
                     host'.pc[t] # "spawning" /\ host'.spawned = host.spawned]_vars

====
